---- MODULE Spec2Model ----
(***************************************************************************)
(* Verification model of n8n-nodes-singularitynet: the payment             *)
(* authorization signer/verifier (utils/paymentUtils), the SDK service     *)
(* call (transport/snetSdk), the Ethereum ledger client                    *)
(* (transport/ethereumClient) driving the Multi-Party Escrow contract, and *)
(* the node's execute loop.                                                *)
(***************************************************************************)
EXTENDS Integers, Naturals, Sequences, FiniteSets, TLC

(***************************************************************************)
(* Bounds of the model.                                                    *)
(***************************************************************************)
NumKeys == 2
MaxChannelId == 1
MaxNonce == 1
MaxAmount == 2
MaxIssued == 2
MaxCalls == 3
MaxHeight == 1
TotalTokens == 2
MaxChannels == 2
MaxItems == 2

VARIABLES
    \* payment authorization signer / verifier
    signerKey,      \* the wallet (private key) the signer holds
    mpeAddr,        \* the MPE address string handed to the signer
    issued,         \* authorizations issued so far, in order
    signFailures,   \* sign requests that raised instead of returning
    lastVerify      \* the last verifyPaymentSignature call and its outcome

sigVars == <<signerKey, mpeAddr, issued, signFailures, lastVerify>>

VARIABLES
    \* SnetSdk
    platformApi,    \* TRUE when platform credentials were given to the SDK
    grpcClients,    \* endpoints for which the SDK has cached a GrpcClient
    sent,           \* requests posted to service daemons, in order
    callResults     \* ServiceCallResult of every callService, in order

sdkVars == <<platformApi, grpcClients, sent, callResults>>

VARIABLES
    \* the ledger: token contract and Multi-Party Escrow contract
    height,         \* current block height
    abiEvents,      \* TRUE when the deployed escrow emits ChannelOpen as the ABI declares it
    tokenBal,       \* AGIX balance of the wallet
    allowance,      \* AGIX allowance of the wallet towards the escrow contract
    escrowBal,      \* escrow balance of the wallet
    channels,       \* the channel table, channels[id + 1] is channel id
    reclaimed       \* ids of the channels reclaimed by a timeout claim

ledgerVars == <<height, abiEvents, tokenBal, allowance, escrowBal, channels, reclaimed>>

VARIABLES
    \* EthereumClient, one entry per caller that shares the wallet
    wallet,         \* TRUE when the client was built with a private key or mnemonic
    pc,             \* where each caller's current client call stands
    call,           \* the client call each caller is in
    trace,          \* what the current call has submitted and met so far
    ret,            \* the value the call returned
    err             \* the error the call raised

clientVars == <<wallet, pc, call, trace, ret, err>>

VARIABLES
    \* Singularitynet.execute, one run of the node
    nodeOp,         \* the operation parameter of the node
    items,          \* the parameters of each input item
    continueOnFail, \* the node's continue-on-fail setting
    itemIndex,      \* position of the item the loop is at (from 1)
    returnData,     \* the output items collected so far
    execPc,         \* where execute stands
    execErr         \* the error execute threw

execVars == <<nodeOp, items, continueOnFail, itemIndex, returnData, execPc, execErr>>

VARIABLES
    \* utility functions and read-only handlers
    calc,           \* the utility function being evaluated: its name, arguments and outcome
    reads           \* getChannelBalances: the getChannel reads settled so far, in order

utilVars == <<calc, reads>>

vars == <<sigVars, sdkVars, ledgerVars, clientVars, execVars, utilVars>>

(***************************************************************************)
(* Addresses.  An address string is a 20-byte value written in one of      *)
(* several letter-case forms: all lowercase, EIP-55 checksummed, or mixed   *)
(* case with a wrong checksum (which ethers' getAddress rejects).          *)
(***************************************************************************)
Keys == 1..NumKeys
AddrOf(k) == 100 + k
MpeMainnet == 10
MpeSepolia == 11
MpeVals == {MpeMainnet, MpeSepolia}
Forms == {"lower", "checksum", "badsum"}
AddrStr(v, f) == [val |-> v, form |-> f]
ToLowerCase(a) == [val |-> a.val, form |-> "lower"]
MpeStrings == {AddrStr(v, f) : v \in MpeVals, f \in Forms}
SignerStrings == {AddrStr(AddrOf(k), f) : k \in Keys, f \in {"lower", "checksum"}}

(***************************************************************************)
(* ethers.solidityPackedKeccak256.  The packed encoding is the             *)
(* concatenation of the fields; keccak256 is taken as collision-free, so   *)
(* the digest is identified with the packed byte string.  An 'address'     *)
(* field is normalised by getAddress: every valid letter-case form of one  *)
(* address packs to the same 20 bytes, an invalid checksum raises.         *)
(***************************************************************************)
PackString(s) == s
PackAddress(a) == <<<<"address", a.val>>>>
PackUint256(n) == <<<<"uint256", n>>>>
ValidAddress(a) == a.form # "badsum"
ValidUint256(n) == n \in Nat
\* the empty byte string stands for a raised error (no packing is empty)
ThrowBytes == <<>>
ThrowAddr == [val |-> -1, form |-> "throw"]

MpeClaimTag == <<"_","_","M","P","E","_","c","l","a","i","m","_","m","e","s","s","a","g","e">>

ClaimPacked(tag, mpeAddress, channelId, nonce, amount) ==
    IF ValidAddress(mpeAddress) /\ ValidUint256(channelId)
         /\ ValidUint256(nonce) /\ ValidUint256(amount)
    THEN PackString(tag) \o PackAddress(mpeAddress) \o PackUint256(channelId)
           \o PackUint256(nonce) \o PackUint256(amount)
    ELSE ThrowBytes

\* paymentUtils.ts generatePaymentSignature, the messageHash it signs
SignHash_dropNonce(mpeAddress, channelId, nonce, amount) ==
    ClaimPacked(MpeClaimTag, mpeAddress, channelId, 0, amount)
SignHash(mpeAddress, channelId, nonce, amount) ==
    ClaimPacked(MpeClaimTag, mpeAddress, channelId, nonce, amount)

\* paymentUtils.ts verifyPaymentSignature, the messageHash it recomputes
VerifyHash_swapped(mpeAddress, channelId, nonce, amount) ==
    ClaimPacked(MpeClaimTag, mpeAddress, nonce, channelId, amount)
VerifyHash(mpeAddress, channelId, nonce, amount) ==
    ClaimPacked(MpeClaimTag, mpeAddress, channelId, nonce, amount)

(***************************************************************************)
(* Wallet.signMessage / ethers.verifyMessage.  A signature is the 65-byte  *)
(* hex string made by a key over the EIP-191 digest of the message;        *)
(* recovery over the digest that was signed gives the key's address, and   *)
(* over any other digest an address no wallet of the model owns.           *)
(***************************************************************************)
HashMessage(bytes) == <<"\\x19Ethereum Signed Message:\\n32", bytes>>
SignMessage(key, bytes) == [fmt |-> "hex65", key |-> key, digest |-> HashMessage(bytes)]
MalformedSigs == {[fmt |-> "empty"], [fmt |-> "nonhex"], [fmt |-> "short"]}
UnknownAddr == 0
VerifyMessage(bytes, signature) ==
    IF signature.fmt # "hex65" THEN ThrowAddr
    ELSE IF signature.digest = HashMessage(bytes)
         THEN AddrStr(AddrOf(signature.key), "checksum")
         ELSE AddrStr(UnknownAddr, "checksum")

\* paymentUtils.ts generatePaymentSignature: ok is FALSE when the promise rejects
generatePaymentSignature(signer, mpeAddress, channelId, nonce, amount) ==
    LET messageHash == SignHash(mpeAddress, channelId, nonce, amount)
    IN  IF messageHash = ThrowBytes THEN [ok |-> FALSE]
        ELSE [ok |-> TRUE, signature |-> SignMessage(signer, messageHash)]

\* verifyPaymentSignature with a catch block that answers true
verifyPaymentSignature_catchTrue(mpeAddress, channelId, nonce, amount, signature, expectedSigner) ==
    LET messageHash == VerifyHash(mpeAddress, channelId, nonce, amount)
    IN  IF messageHash = ThrowBytes THEN TRUE
        ELSE LET recoveredAddress == VerifyMessage(messageHash, signature)
             IN  IF recoveredAddress = ThrowAddr THEN TRUE
                 ELSE ToLowerCase(recoveredAddress) = ToLowerCase(expectedSigner)

\* paymentUtils.ts verifyPaymentSignature
verifyPaymentSignature(mpeAddress, channelId, nonce, amount, signature, expectedSigner) ==
    LET messageHash == VerifyHash(mpeAddress, channelId, nonce, amount)
    IN  IF messageHash = ThrowBytes THEN FALSE
        ELSE LET recoveredAddress == VerifyMessage(messageHash, signature)
             IN  IF recoveredAddress = ThrowAddr THEN FALSE
                 ELSE ToLowerCase(recoveredAddress) = ToLowerCase(expectedSigner)

(***************************************************************************)
(* The signer and the verifier as operations.                              *)
(***************************************************************************)
ChannelIds == 0..MaxChannelId
Nonces == 0..MaxNonce
Amounts == 0..MaxAmount

IdleSdk ==
    /\ platformApi = FALSE
    /\ grpcClients = {}
    /\ sent = <<>>
    /\ callResults = <<>>

IdleLedger ==
    /\ height = 0
    /\ abiEvents = TRUE
    /\ tokenBal = 0
    /\ allowance = 0
    /\ escrowBal = 0
    /\ channels = <<>>
    /\ reclaimed = {}

Procs == {"p1", "p2"}
NoCall == [op |-> "none"]
NoResult == [kind |-> "none"]
NoError == [name |-> "none", code |-> "OK", message |-> ""]

IdleClient ==
    /\ wallet = FALSE
    /\ pc = [p \in Procs |-> "idle"]
    /\ call = [p \in Procs |-> NoCall]
    /\ trace = [p \in Procs |-> <<>>]
    /\ ret = [p \in Procs |-> NoResult]
    /\ err = [p \in Procs |-> NoError]

NoCalc == [fn |-> "none"]
IdleUtil ==
    /\ calc = NoCalc
    /\ reads = <<>>

IdleExec ==
    /\ nodeOp = "none"
    /\ items = <<>>
    /\ continueOnFail = FALSE
    /\ itemIndex = 0
    /\ returnData = <<>>
    /\ execPc = "idle"
    /\ execErr = NoError

InitSig ==
    /\ IdleSdk
    /\ IdleLedger
    /\ IdleClient
    /\ IdleExec
    /\ IdleUtil
    /\ signerKey \in Keys
    /\ mpeAddr \in MpeStrings
    /\ issued = <<>>
    /\ signFailures = 0
    /\ lastVerify = [called |-> FALSE]

\* one call of generatePaymentSignature by the holder of signerKey
Sign(channelId, nonce, amount) ==
    /\ Len(issued) + signFailures < MaxIssued
    /\ LET r == generatePaymentSignature(signerKey, mpeAddr, channelId, nonce, amount)
       IN  IF ~r.ok
           THEN /\ signFailures' = signFailures + 1
                /\ UNCHANGED issued
           ELSE /\ issued' = Append(issued, [channelId |-> channelId, nonce |-> nonce,
                                             amount |-> amount, signature |-> r.signature])
                /\ UNCHANGED signFailures
    /\ UNCHANGED <<signerKey, mpeAddr, lastVerify, sdkVars, ledgerVars, clientVars, execVars, utilVars>>

\* one call of verifyPaymentSignature on the latest issued signature
Verify(mpeAddress, channelId, nonce, amount, expectedSigner) ==
    /\ Len(issued) >= 1
    /\ LET a == issued[Len(issued)]
       IN  lastVerify' = [called |-> TRUE, mpeAddress |-> mpeAddress, channelId |-> channelId,
                           nonce |-> nonce, amount |-> amount,
                           signature |-> a.signature, expectedSigner |-> expectedSigner,
                           result |-> verifyPaymentSignature(mpeAddress, channelId, nonce,
                                          amount, a.signature, expectedSigner)]
    /\ UNCHANGED <<signerKey, mpeAddr, issued, signFailures, sdkVars, ledgerVars, clientVars,
                   execVars, utilVars>>

SignStep ==
    \E c \in ChannelIds, n \in Nonces, a \in Amounts : Sign(c, n, a)
VerifyStep ==
    \E m \in MpeStrings, c \in ChannelIds, n \in Nonces, a \in Amounts, e \in SignerStrings :
        Verify(m, c, n, a, e)

\* the first authorization of a session
SignFirst == Len(issued) = 0 /\ signFailures = 0 /\ SignStep

(***************************************************************************)
(* SpecSig: one authorization is signed and then verified with arbitrary   *)
(* arguments.  SpecAuth: a sequence of authorizations is issued.           *)
(***************************************************************************)
\* the verifier applied to that authorization
VerifyOnce == ~lastVerify.called /\ VerifyStep

NextSig == SignFirst \/ VerifyOnce
SpecSig == InitSig /\ [][NextSig]_vars

NextAuth == SignStep
SpecAuth == InitSig /\ [][NextAuth]_vars

(***************************************************************************)
(* C1: verifyPaymentSignature returns true on the signature that           *)
(* generatePaymentSignature made for a tuple when it is given that tuple   *)
(* and the signer's address, and false when exactly one of mpeAddress (as  *)
(* an address), channelId, nonce, amount differs from what was signed.     *)
(***************************************************************************)
B2N(b) == IF b THEN 1 ELSE 0
NumAltered(v) ==
    B2N(v.mpeAddress.val # mpeAddr.val) + B2N(v.channelId # issued[1].channelId)
      + B2N(v.nonce # issued[1].nonce) + B2N(v.amount # issued[1].amount)
C1_SignatureBindsTuple ==
    lastVerify.called =>
        /\ ( /\ lastVerify.mpeAddress = mpeAddr
             /\ NumAltered(lastVerify) = 0
             /\ lastVerify.expectedSigner.val = AddrOf(signerKey) )
              => lastVerify.result = TRUE
        /\ NumAltered(lastVerify) = 1 => lastVerify.result = FALSE
C1_Witness ==
    /\ lastVerify.called
    /\ lastVerify.mpeAddress = mpeAddr
    /\ NumAltered(lastVerify) = 0
    /\ lastVerify.expectedSigner = AddrStr(AddrOf(signerKey), "lower")
    /\ issued[1].nonce = 1 /\ issued[1].channelId = 0
    /\ lastVerify.result = TRUE

(***************************************************************************)
(* C2 as stated: the amounts of the authorizations issued for one          *)
(* (channelId, nonce) never decrease in issue order.                       *)
(***************************************************************************)
C2_AmountsNonDecreasing ==
    \A i \in 1..Len(issued), j \in 1..Len(issued) :
        ( /\ i < j
          /\ issued[i].channelId = issued[j].channelId
          /\ issued[i].nonce = issued[j].nonce )
          => issued[i].amount <= issued[j].amount

(***************************************************************************)
(* C2 amended: the signer keeps no record of what it signed.  Every sign   *)
(* request whose arguments can be encoded yields an authorization that     *)
(* verifies for its own tuple and the signer's address, also when a larger *)
(* amount was signed before for the same (channelId, nonce).               *)
(***************************************************************************)
C2_SignerIsStateless ==
    /\ ValidAddress(mpeAddr) => signFailures = 0
    /\ \A i \in 1..Len(issued) :
          verifyPaymentSignature(mpeAddr, issued[i].channelId, issued[i].nonce,
              issued[i].amount, issued[i].signature,
              AddrStr(AddrOf(signerKey), "checksum"))
C2_Witness ==
    /\ Len(issued) = 2
    /\ issued[1].channelId = issued[2].channelId
    /\ issued[1].nonce = issued[2].nonce
    /\ issued[1].nonce = MaxNonce
    /\ issued[2].amount < issued[1].amount
    /\ verifyPaymentSignature(mpeAddr, issued[2].channelId, issued[2].nonce,
           issued[2].amount, issued[2].signature, AddrStr(AddrOf(signerKey), "lower"))

(***************************************************************************)
(* SnetSdk.callService and GrpcClient.call.  A header set is a function    *)
(* from header names to values.                                            *)
(***************************************************************************)
IdleSig ==
    /\ signerKey = 1
    /\ mpeAddr = AddrStr(MpeMainnet, "checksum")
    /\ issued = <<>>
    /\ signFailures = 0
    /\ lastVerify = [called |-> FALSE]

NoHeaders == <<>>
MergeHeaders(base, over) ==
    [k \in DOMAIN base \cup DOMAIN over |-> IF k \in DOMAIN over THEN over[k] ELSE base[k]]

\* the header names of createPaymentMetadata
PaymentHeaderNames ==
    {"snet-payment-type", "snet-payment-channel-id", "snet-payment-channel-nonce",
     "snet-payment-channel-amount", "snet-payment-channel-signature-bin"}

\* a method name with or without its leading '/', an endpoint with or
\* without its scheme
Methods == {[slash |-> b, name |-> "add"] : b \in BOOLEAN}
Endpoints == {[scheme |-> "https", host |-> "a.example"], [scheme |-> "", host |-> "b.example"]}

\* grpcClient.ts normalizeEndpoint
normalizeEndpoint(endpoint, useSsl) ==
    IF endpoint.scheme \in {"http", "https"} THEN endpoint
    ELSE [scheme |-> IF useSsl THEN "https" ELSE "http", host |-> endpoint.host]

\* grpcClient.ts call: the method path of the request
MethodPath(method) == IF method.slash THEN method ELSE [slash |-> TRUE, name |-> method.name]

\* grpcClient.ts call: the headers of the request
CallHeaders(metadata) ==
    MergeHeaders(MergeHeaders("Content-Type" :> "application/json", metadata), metadata)

\* snetSdk.ts callService: the payment metadata prepared for the call
PaymentMetadata(useFreeCall) ==
    IF ~useFreeCall THEN NoHeaders ELSE NoHeaders

InitSdk ==
    /\ IdleSig
    /\ IdleLedger
    /\ IdleClient
    /\ IdleExec
    /\ IdleUtil
    /\ platformApi \in BOOLEAN
    /\ grpcClients = {}
    /\ sent = <<>>
    /\ callResults = <<>>

\* snetSdk.ts callService; metaOk: platformApi.getService answered,
\* grpcOk: the daemon answered the post
callService(endpoint, method, useFreeCall, metaOk, grpcOk) ==
    /\ Len(callResults) < MaxCalls
    /\ IF ~platformApi \/ ~metaOk
       THEN /\ callResults' = Append(callResults, [success |-> FALSE, paid |-> ~useFreeCall])
            /\ UNCHANGED <<grpcClients, sent>>
       ELSE /\ grpcClients' = grpcClients \cup {endpoint}
            /\ sent' = Append(sent, [url |-> normalizeEndpoint(endpoint, TRUE),
                                     path |-> MethodPath(method),
                                     paid |-> ~useFreeCall,
                                     headers |-> CallHeaders(PaymentMetadata(useFreeCall))])
            /\ callResults' = Append(callResults, [success |-> grpcOk, paid |-> ~useFreeCall])
    /\ UNCHANGED <<platformApi, sigVars, ledgerVars, clientVars, execVars, utilVars>>

CallServiceStep ==
    \E e \in Endpoints, m \in Methods, f \in BOOLEAN, metaOk \in BOOLEAN, grpcOk \in BOOLEAN :
        callService(e, m, f, metaOk, grpcOk)

NextSdk == CallServiceStep
SpecSdk == InitSdk /\ [][NextSdk]_vars

(***************************************************************************)
(* C3: every request of a paid (non-free-call) callService carries the     *)
(* escrow authorization headers (payment type, channel id, nonce,          *)
(* cumulative amount, signature), and the amount carried grows from one    *)
(* paid call to the next on the same channel.                              *)
(***************************************************************************)
PaidRequests == SelectSeq(sent, LAMBDA r : r.paid)
C3_PaidCallsCarryAuthorization ==
    /\ \A i \in 1..Len(sent) :
          sent[i].paid =>
              /\ PaymentHeaderNames \subseteq DOMAIN sent[i].headers
              /\ sent[i].headers["snet-payment-type"] = "escrow"
    /\ \A i \in 1..Len(PaidRequests), j \in 1..Len(PaidRequests) :
          ( /\ i < j
            /\ PaymentHeaderNames \subseteq DOMAIN PaidRequests[i].headers
            /\ PaymentHeaderNames \subseteq DOMAIN PaidRequests[j].headers
            /\ PaidRequests[i].headers["snet-payment-channel-id"]
                 = PaidRequests[j].headers["snet-payment-channel-id"] )
            => PaidRequests[i].headers["snet-payment-channel-amount"]
                 < PaidRequests[j].headers["snet-payment-channel-amount"]

(***************************************************************************)
(* The ledger.  The AGIX token follows the allowance model; the escrow     *)
(* contract keeps a balance per account and the channel table.  Every      *)
(* transaction of the model is sent by the client's wallet.                *)
(***************************************************************************)
ZeroAddr == 0
WalletAddr == AddrOf(1)
OtherAddr == AddrOf(2)
Recipient == 50
GroupId == 7

Channel(nonce, sender, signer, recipient, groupId, value, expiration) ==
    [nonce |-> nonce, sender |-> sender, signer |-> signer, recipient |-> recipient,
     groupId |-> groupId, value |-> value, expiration |-> expiration]
ZeroChannel == Channel(0, ZeroAddr, ZeroAddr, ZeroAddr, 0, 0, 0)
\* a channel another account opened before the client starts
ForeignChannel == Channel(0, OtherAddr, OtherAddr, Recipient, GroupId, 1, 1)

ChannelExists(id) == id + 1 \in DOMAIN channels
NextChannelId == Len(channels)

\* MPE channels(uint256): the getter of the channel table
ChannelsRead(id) == IF ChannelExists(id) THEN channels[id + 1] ELSE ZeroChannel

\* contracts.ts CONTRACT_ADDRESSES: the address the escrow contract object is bound to
EscrowAddress == 10

\* whether the contracts accept transaction tx in the current state
Accepts(tx) ==
    CASE tx.op = "approve" -> TRUE
      [] tx.op = "deposit" -> allowance >= tx.amount /\ tokenBal >= tx.amount
      [] tx.op = "withdraw" -> escrowBal >= tx.amount
      [] tx.op = "openChannel" -> escrowBal >= tx.amount /\ tx.signer # ZeroAddr
      [] tx.op = "channelAddFunds" -> ChannelExists(tx.channelId) /\ escrowBal >= tx.amount
      [] tx.op = "channelExtend" ->
            /\ ChannelsRead(tx.channelId).sender = WalletAddr
            /\ tx.newExpiration >= ChannelsRead(tx.channelId).expiration
      [] tx.op = "channelClaimTimeout" ->
            /\ ChannelsRead(tx.channelId).sender = WalletAddr
            /\ tx.channelId \notin reclaimed
            /\ height >= ChannelsRead(tx.channelId).expiration

\* the state the contracts are in after an accepted transaction tx
Apply(tx) ==
    CASE tx.op = "approve" ->
            /\ allowance' = IF tx.spender = EscrowAddress THEN tx.amount ELSE allowance
            /\ UNCHANGED <<tokenBal, escrowBal, channels, reclaimed>>
      [] tx.op = "deposit" ->
            /\ allowance' = allowance - tx.amount
            /\ tokenBal' = tokenBal - tx.amount
            /\ escrowBal' = escrowBal + tx.amount
            /\ UNCHANGED <<channels, reclaimed>>
      [] tx.op = "withdraw" ->
            /\ escrowBal' = escrowBal - tx.amount
            /\ tokenBal' = tokenBal + tx.amount
            /\ UNCHANGED <<allowance, channels, reclaimed>>
      [] tx.op = "openChannel" ->
            /\ channels' = Append(channels, Channel(0, WalletAddr, tx.signer, tx.recipient,
                                                    tx.groupId, tx.amount, tx.expiration))
            /\ escrowBal' = escrowBal - tx.amount
            /\ UNCHANGED <<allowance, tokenBal, reclaimed>>
      [] tx.op = "channelAddFunds" ->
            /\ channels' = [channels EXCEPT ![tx.channelId + 1].value = @ + tx.amount]
            /\ escrowBal' = escrowBal - tx.amount
            /\ UNCHANGED <<allowance, tokenBal, reclaimed>>
      [] tx.op = "channelExtend" ->
            /\ channels' = [channels EXCEPT ![tx.channelId + 1].expiration = tx.newExpiration]
            /\ UNCHANGED <<allowance, tokenBal, escrowBal, reclaimed>>
      [] tx.op = "channelClaimTimeout" ->
            /\ escrowBal' = escrowBal + channels[tx.channelId + 1].value
            /\ channels' = [channels EXCEPT ![tx.channelId + 1].value = 0]
            /\ reclaimed' = reclaimed \cup {tx.channelId}
            /\ UNCHANGED <<allowance, tokenBal>>

ContractState == <<tokenBal, allowance, escrowBal, channels, reclaimed>>

(***************************************************************************)
(* Event logs.  A topic is the 0x-prefixed hex string of a 32-byte word.   *)
(***************************************************************************)
TopicDigits == 64
\* the hex digits of n, most significant first, padded to k digits
\* (the values of the model stay below 16^7)
HexDigits(n, k) ==
    [i \in 1..k |-> IF k - i > 7 THEN 0 ELSE (n \div (16 ^ (k - i))) % 16]
Hex32(n) == [prefix |-> "0x", digits |-> HexDigits(n, TopicDigits)]

\* the digits from the first non-zero one on
Significant(digits) ==
    LET nz == {i \in 1..Len(digits) : digits[i] # 0}
    IN  IF nz = {} THEN <<>>
        ELSE SubSeq(digits, CHOOSE i \in nz : \A j \in nz : i <= j, Len(digits))
RECURSIVE DigitsValue(_, _)
DigitsValue(digits, radix) ==
    IF digits = <<>> THEN 0
    ELSE DigitsValue(SubSeq(digits, 1, Len(digits) - 1), radix) * radix + digits[Len(digits)]
\* the longest prefix made of digits of the radix
LeadingDigits(digits, radix) ==
    LET bad == {i \in 1..Len(digits) : digits[i] >= radix}
    IN  IF bad = {} THEN digits
        ELSE SubSeq(digits, 1, (CHOOSE i \in bad : \A j \in bad : i <= j) - 1)
\* parseInt(string, radix): a 0x prefix is skipped for radix 16 only; for
\* another radix the parse stops at the 'x'
ParseInt(str, radix) ==
    IF radix = 16 THEN DigitsValue(Significant(LeadingDigits(str.digits, 16)), 16)
    ELSE IF str.prefix = "0x" THEN 0
    ELSE DigitsValue(Significant(LeadingDigits(str.digits, radix)), radix)

\* ethers.id: keccak256 of a string, taken as collision-free
EthersId(text) == <<"keccak256", text>>

\* contracts.ts MPE_CONTRACT_ABI: the signature of the ChannelOpen event
AbiChannelOpen == "ChannelOpen(uint256,uint256,address,address,address,bytes32,uint256,uint256)"
\* an escrow whose ChannelOpen event has another shape
OtherChannelOpen == "ChannelOpen(uint256,address,address,address,bytes32,uint256,uint256)"

\* the logs of a receipt whose transaction created channel id and emitted
\* the event named eventSignature
ReceiptLogs(id, tx, eventSignature) ==
    <<[topics |-> <<EthersId(eventSignature), Hex32(id), Hex32(WalletAddr),
                    Hex32(tx.recipient)>>]>>
\* the logs of the receipt of a mined openChannel that created channel id
OpenChannelLogs(id, tx) ==
    ReceiptLogs(id, tx, IF abiEvents THEN AbiChannelOpen ELSE OtherChannelOpen)

\* ethereumClient.ts openChannel: the event signature it looks for
ClientChannelOpen == "ChannelOpen(uint256,uint256,address,address,address,bytes32,uint256,uint256)"

\* ethereumClient.ts openChannel: "Extract channel ID from event"
ExtractChannelId_radix10(logs) ==
    LET event == SelectSeq(logs, LAMBDA log : log.topics[1] = EthersId(ClientChannelOpen))
    IN  IF event # <<>> THEN ParseInt(event[1].topics[2], 10) ELSE 0
ExtractChannelId_minusOne(logs) ==
    LET event == SelectSeq(logs, LAMBDA log : log.topics[1] = EthersId(ClientChannelOpen))
    IN  IF event # <<>> THEN ParseInt(event[1].topics[2], 16) ELSE 0 - 1
ExtractChannelId(logs) ==
    LET event == SelectSeq(logs, LAMBDA log : log.topics[1] = EthersId(ClientChannelOpen))
    IN  IF event # <<>> THEN ParseInt(event[1].topics[2], 16) ELSE 0

(***************************************************************************)
(* EthereumClient.  A write is `await contract.f(...)` followed by         *)
(* `await tx.wait()`.  The first has ethers populate the transaction       *)
(* (estimateGas: a call the contract would refuse raises CALL_EXCEPTION    *)
(* and nothing is sent), sign it and broadcast it; the chain may move      *)
(* between the estimate and the broadcast.  tx.wait() returns the receipt  *)
(* once the transaction is mined and raises CALL_EXCEPTION when it         *)
(* reverted.  The client catches nothing.                                  *)
(***************************************************************************)
PosAmounts == 1..MaxAmount
Expirations == 0..MaxHeight
LedgerIds == 0..MaxChannels

ClientCalls ==
    {[op |-> "depositToEscrow", amount |-> a] : a \in PosAmounts}
      \cup {[op |-> "withdrawFromEscrow", amount |-> a] : a \in PosAmounts}
      \cup {[op |-> "openChannel", recipient |-> Recipient, groupId |-> GroupId,
             amount |-> a, expiration |-> e] : a \in PosAmounts, e \in Expirations}
      \cup {[op |-> "getChannel", channelId |-> i] : i \in LedgerIds}
      \cup {[op |-> "addFundsToChannel", channelId |-> i, amount |-> a] :
               i \in LedgerIds, a \in PosAmounts}
      \cup {[op |-> "extendChannel", channelId |-> i, newExpiration |-> e] :
               i \in LedgerIds, e \in Expirations}
      \cup {[op |-> "claimChannelTimeout", channelId |-> i] : i \in LedgerIds}

\* ethereumClient.ts getMpeAddress
getMpeAddress == MpeMainnet

\* ethereumClient.ts approveAgix: the transaction it sends
ApproveTx_unlimited(c) ==
    [op |-> "approve", spender |-> getMpeAddress, amount |-> 2 * TotalTokens]
ApproveTx(c) == [op |-> "approve", spender |-> getMpeAddress, amount |-> c.amount]

\* the escrow transaction each client method sends
ClientTx(c) ==
    CASE c.op = "depositToEscrow" -> [op |-> "deposit", amount |-> c.amount]
      [] c.op = "withdrawFromEscrow" -> [op |-> "withdraw", amount |-> c.amount]
      [] c.op = "openChannel" ->
            [op |-> "openChannel", signer |-> WalletAddr, recipient |-> c.recipient,
             groupId |-> c.groupId, amount |-> c.amount, expiration |-> c.expiration]
      [] c.op = "addFundsToChannel" ->
            [op |-> "channelAddFunds", channelId |-> c.channelId, amount |-> c.amount]
      [] c.op = "extendChannel" ->
            [op |-> "channelExtend", channelId |-> c.channelId,
             newExpiration |-> c.newExpiration]
      [] c.op = "claimChannelTimeout" ->
            [op |-> "channelClaimTimeout", channelId |-> c.channelId]

\* the first transaction of a client method, and where the method stands
\* once that transaction is populated
FirstTx(c) == IF c.op = "depositToEscrow" THEN ApproveTx(c) ELSE ClientTx(c)
FirstSend(c) == IF c.op = "depositToEscrow" THEN "sendApprove" ELSE "send"

\* the errors a client call raises: the guard's plain Error and the errors
\* of ethers, which are Error objects told apart by their code property
NotInitialized ==
    [name |-> "Error", code |-> "none", message |-> "MPE contract or wallet not initialized"]
NetworkError ==
    [name |-> "Error", code |-> "NETWORK_ERROR", message |-> "could not reach the RPC endpoint"]
CallException ==
    [name |-> "Error", code |-> "CALL_EXCEPTION", message |-> "execution reverted"]
EthersError(cause) == IF cause = "network" THEN NetworkError ELSE CallException

\* TransactionResult of a mined transaction
TransactionResult(p, tx) ==
    [hash |-> [from |-> p, tx |-> tx.op], status |-> "success"]

\* ethereumClient.ts getChannel: the ChannelInfo it returns
getChannel(channelId) ==
    LET channel == ChannelsRead(channelId)
    IN  [channelId |-> channelId, nonce |-> channel.nonce, sender |-> channel.sender,
         signer |-> channel.signer, recipient |-> channel.recipient,
         groupId |-> channel.groupId, value |-> channel.value,
         expiration |-> channel.expiration]

\* what openChannel returns for a receipt with the given logs
OpenChannelResult(p, c, logs) ==
    [channelId |-> ExtractChannelId(logs), tx |-> TransactionResult(p, ClientTx(c))]

\* what a call returns once its escrow transaction is mined; id is the
\* channel id the ledger assigned when the transaction opened a channel
CallResult(p, c, id) ==
    IF c.op = "openChannel"
    THEN OpenChannelResult(p, c, OpenChannelLogs(id, ClientTx(c)))
    ELSE TransactionResult(p, ClientTx(c))

\* the record of a broadcast transaction; for a deposit it notes the
\* allowance the escrow contract holds at that moment
Submitted(tx) ==
    IF tx.op = "deposit" THEN [ev |-> "submit", tx |-> tx.op, allowance |-> allowance]
    ELSE [ev |-> "submit", tx |-> tx.op]
Failed(cause) == [ev |-> "fail", cause |-> cause]
Confirmed(tx) == [ev |-> "confirm", tx |-> tx.op]

\* an error leaves the client method: nothing catches it
Raise_retry(p, e, cause) ==
    /\ pc' = [pc EXCEPT ![p] = "approved"]
    /\ trace' = [trace EXCEPT ![p] = Append(@, Failed(cause))]
    /\ UNCHANGED <<ret, err>>
Raise(p, e, cause) ==
    /\ pc' = [pc EXCEPT ![p] = "threw"]
    /\ err' = [err EXCEPT ![p] = e]
    /\ trace' = [trace EXCEPT ![p] = Append(@, Failed(cause))]
    /\ UNCHANGED ret

\* a caller enters a client method: the guard on the wallet, then the read
\* (getChannel) or the population of the method's first transaction;
\* netOk is FALSE when the RPC endpoint fails
BeginCall(p, c, netOk) ==
    /\ pc[p] \in {"idle", "returned", "threw"}
    /\ c.op = "openChannel" => NextChannelId < MaxChannels
    /\ call' = [call EXCEPT ![p] = c]
    /\ IF c.op = "getChannel"
       THEN /\ trace' = [trace EXCEPT ![p] = <<>>]
            /\ IF netOk
               THEN /\ pc' = [pc EXCEPT ![p] = "returned"]
                    /\ ret' = [ret EXCEPT ![p] = getChannel(c.channelId)]
                    /\ err' = [err EXCEPT ![p] = NoError]
               ELSE /\ pc' = [pc EXCEPT ![p] = "threw"]
                    /\ ret' = [ret EXCEPT ![p] = NoResult]
                    /\ err' = [err EXCEPT ![p] = NetworkError]
       ELSE /\ ret' = [ret EXCEPT ![p] = NoResult]
            /\ IF ~wallet
               THEN /\ pc' = [pc EXCEPT ![p] = "threw"]
                    /\ err' = [err EXCEPT ![p] = NotInitialized]
                    /\ trace' = [trace EXCEPT ![p] = <<>>]
               ELSE IF ~netOk \/ ~Accepts(FirstTx(c))
               THEN LET cause == IF ~netOk THEN "network" ELSE "revert"
                    IN  /\ pc' = [pc EXCEPT ![p] = "threw"]
                        /\ err' = [err EXCEPT ![p] = EthersError(cause)]
                        /\ trace' = [trace EXCEPT ![p] = <<Failed(cause)>>]
               ELSE /\ pc' = [pc EXCEPT ![p] = FirstSend(c)]
                    /\ err' = [err EXCEPT ![p] = NoError]
                    /\ trace' = [trace EXCEPT ![p] = <<>>]
    /\ UNCHANGED <<wallet, ledgerVars, sigVars, sdkVars>>
Begin(p, c, netOk) == BeginCall(p, c, netOk) /\ UNCHANGED <<execVars, utilVars>>

\* the populated transaction of a call is signed and broadcast
Broadcast(p, netOk) ==
    /\ pc[p] \in {"sendApprove", "send"}
    /\ LET tx == IF pc[p] = "sendApprove" THEN ApproveTx(call[p]) ELSE ClientTx(call[p])
       IN  IF netOk
           THEN /\ pc' = [pc EXCEPT ![p] = IF pc[p] = "sendApprove" THEN "waitApprove"
                                           ELSE "wait"]
                /\ trace' = [trace EXCEPT ![p] = Append(@, Submitted(tx))]
                /\ UNCHANGED <<ret, err>>
           ELSE Raise(p, NetworkError, "network")
    /\ UNCHANGED <<wallet, call, ledgerVars, sigVars, sdkVars, execVars, utilVars>>

\* the callers whose approval is confirmed and whose deposit is not yet
\* broadcast, other than q
AwaitingDeposit(q) ==
    {p \in Procs \ {q} : call[p].op = "depositToEscrow" /\ pc[p] \in {"approved", "send"}}
Interference == [ev |-> "interference"]
Disturbed(tr) == \E i \in 1..Len(tr) : tr[i] = Interference
\* a mined approval or deposit of caller q changes the allowance under the
\* callers that stand between their approval and their deposit
Disturb(tr, q, tx) ==
    [p \in Procs |-> IF p \in AwaitingDeposit(q) /\ tx.op \in {"approve", "deposit"}
                        /\ ~Disturbed(tr[p])
                     THEN Append(tr[p], Interference) ELSE tr[p]]

\* approveAgix: the approval is mined and tx.wait() returns
ConfirmApprove(p) ==
    /\ pc[p] = "waitApprove"
    /\ Apply(ApproveTx(call[p]))
    /\ pc' = [pc EXCEPT ![p] = "approved"]
    /\ trace' = Disturb([trace EXCEPT ![p] = Append(@, Confirmed(ApproveTx(call[p])))],
                        p, ApproveTx(call[p]))
    /\ UNCHANGED <<height, abiEvents, wallet, call, ret, err, sigVars, sdkVars, execVars, utilVars>>

\* depositToEscrow goes on to the deposit once `await this.approveAgix(amount)`
\* has returned
DepositReady_noWait(p) == pc[p] \in {"waitApprove", "approved"}
DepositReady(p) == pc[p] = "approved"

\* depositToEscrow: `this.contracts.mpe.deposit(amount)` is populated
EstimateDeposit(p, netOk) ==
    /\ DepositReady(p)
    /\ IF ~netOk THEN Raise(p, NetworkError, "network")
       ELSE IF ~Accepts(ClientTx(call[p])) THEN Raise(p, CallException, "revert")
       ELSE /\ pc' = [pc EXCEPT ![p] = "send"]
            /\ UNCHANGED <<trace, ret, err>>
    /\ UNCHANGED <<wallet, call, ledgerVars, sigVars, sdkVars, execVars, utilVars>>

\* the escrow transaction of a call is mined and tx.wait() returns or raises
Confirm(p) ==
    /\ pc[p] = "wait"
    /\ LET tx == ClientTx(call[p])
       IN  IF Accepts(tx)
           THEN /\ Apply(tx)
                /\ pc' = [pc EXCEPT ![p] = "returned"]
                /\ ret' = [ret EXCEPT ![p] = CallResult(p, call[p], NextChannelId)]
                /\ trace' = Disturb([trace EXCEPT ![p] = Append(@, Confirmed(tx))], p, tx)
                /\ UNCHANGED err
           ELSE /\ Raise(p, CallException, "revert")
                /\ UNCHANGED ContractState
    /\ UNCHANGED <<height, abiEvents, wallet, call, sigVars, sdkVars, execVars, utilVars>>

\* the chain grows by one block
Tick ==
    /\ height < MaxHeight
    /\ height' = height + 1
    /\ UNCHANGED <<abiEvents, tokenBal, allowance, escrowBal, channels, reclaimed,
                   clientVars, sigVars, sdkVars, execVars, utilVars>>

\* a withdrawal that the wallet's owner sent from elsewhere is mined
Outside ==
    /\ escrowBal > 0
    /\ escrowBal' = escrowBal - 1
    /\ tokenBal' = tokenBal + 1
    /\ UNCHANGED <<height, abiEvents, allowance, channels, reclaimed,
                   clientVars, sigVars, sdkVars, execVars, utilVars>>

InitLedger ==
    /\ IdleSig
    /\ IdleSdk
    /\ IdleExec
    /\ IdleUtil
    /\ height = 0
    /\ abiEvents \in BOOLEAN
    /\ tokenBal = TotalTokens
    /\ escrowBal = 0
    /\ allowance = 0
    /\ channels \in {<<>>, <<ForeignChannel>>}
    /\ reclaimed = {}
    /\ wallet \in BOOLEAN
    /\ pc = [p \in Procs |-> "idle"]
    /\ call = [p \in Procs |-> NoCall]
    /\ trace = [p \in Procs |-> <<>>]
    /\ ret = [p \in Procs |-> NoResult]
    /\ err = [p \in Procs |-> NoError]

ClientStep(p, calls) ==
    \/ \E c \in calls, netOk \in BOOLEAN : Begin(p, c, netOk)
    \/ \E netOk \in BOOLEAN : Broadcast(p, netOk)
    \/ ConfirmApprove(p)
    \/ \E netOk \in BOOLEAN : EstimateDeposit(p, netOk)
    \/ Confirm(p)

(***************************************************************************)
(* SpecLedger: one caller makes client calls one after the other while the *)
(* chain grows.  SpecConc: two callers that share the wallet run           *)
(* depositToEscrow calls concurrently (the client holds no lock).          *)
(* SpecOpen: one caller opens channels from a funded escrow balance and    *)
(* reads channels.                                                         *)
(***************************************************************************)
WriteCalls == {c \in ClientCalls : c.op # "getChannel"}
NextLedger ==
    \/ ClientStep("p1", WriteCalls)
    \/ Tick
    \/ Outside
SpecLedger == InitLedger /\ [][NextLedger]_vars

DepositCalls == {c \in ClientCalls : c.op = "depositToEscrow"}
InitConc == InitLedger /\ wallet /\ abiEvents
NextConc == \E p \in Procs : ClientStep(p, DepositCalls)
SpecConc == InitConc /\ [][NextConc]_vars

\* two callers that share the wallet each run one depositToEscrow call
NextRace == \E p \in Procs : pc[p] \notin {"returned", "threw"} /\ ClientStep(p, DepositCalls)
SpecRace == InitConc /\ [][NextRace]_vars

OpenCalls == {c \in ClientCalls : c.op \in {"openChannel", "getChannel"}}
InitOpen ==
    /\ IdleSig
    /\ IdleSdk
    /\ IdleExec
    /\ IdleUtil
    /\ height = 0
    /\ abiEvents \in BOOLEAN
    /\ tokenBal = 0
    /\ escrowBal = TotalTokens
    /\ allowance = 0
    /\ channels \in {<<>>, <<ForeignChannel>>}
    /\ reclaimed = {}
    /\ wallet \in BOOLEAN
    /\ pc = [p \in Procs |-> "idle"]
    /\ call = [p \in Procs |-> NoCall]
    /\ trace = [p \in Procs |-> <<>>]
    /\ ret = [p \in Procs |-> NoResult]
    /\ err = [p \in Procs |-> NoError]
NextOpen ==
    \/ \E c \in OpenCalls, netOk \in BOOLEAN : Begin("p1", c, netOk)
    \/ \E netOk \in BOOLEAN : Broadcast("p1", netOk)
    \/ Confirm("p1")
SpecOpen == InitOpen /\ [][NextOpen]_vars

(***************************************************************************)
(* Reading a call's trace.                                                 *)
(***************************************************************************)
IsSubmit(e, t) == e.ev = "submit" /\ e.tx = t
IsConfirm(e, t) == e.ev = "confirm" /\ e.tx = t
ApprovalConfirmedBefore(tr, i) ==
    \E j \in 1..(i - 1), k \in 1..(i - 1) :
        j < k /\ IsSubmit(tr[j], "approve") /\ IsConfirm(tr[k], "approve")
DisturbedBefore(tr, i) == \E j \in 1..(i - 1) : tr[j] = Interference
ApprovalFailed(tr) ==
    \E i \in 1..Len(tr) :
        tr[i].ev = "fail" /\ ~\E k \in 1..(i - 1) : IsConfirm(tr[k], "approve")
DepositSubmitted(tr) == \E i \in 1..Len(tr) : IsSubmit(tr[i], "deposit")
SubmitCount(tr, t) == Cardinality({i \in 1..Len(tr) : IsSubmit(tr[i], t)})
SubmitTotal(tr) == Cardinality({i \in 1..Len(tr) : tr[i].ev = "submit"})

(***************************************************************************)
(* C4 as stated: in every run of depositToEscrow(amount) the approval is   *)
(* submitted and confirmed before the deposit is submitted, the allowance  *)
(* is at least amount at the moment the deposit is submitted, and when the *)
(* approval step raises an error no deposit is submitted.                  *)
(***************************************************************************)
C4_ApproveThenDeposit ==
    \A p \in Procs :
        call[p].op = "depositToEscrow" =>
            /\ \A i \in 1..Len(trace[p]) :
                  IsSubmit(trace[p][i], "deposit") =>
                      /\ ApprovalConfirmedBefore(trace[p], i)
                      /\ trace[p][i].allowance >= call[p].amount
            /\ ApprovalFailed(trace[p]) => ~DepositSubmitted(trace[p])

(***************************************************************************)
(* C4 as amended: the approval is submitted and confirmed before the       *)
(* deposit is submitted, and an error of the approval step means no        *)
(* deposit is submitted; the allowance is at least amount when the deposit *)
(* is submitted unless another approval or deposit of the same wallet was  *)
(* mined between this call's approval and its deposit.                     *)
(***************************************************************************)
C4_ApproveThenDepositUnlessInterleaved ==
    \A p \in Procs :
        call[p].op = "depositToEscrow" =>
            /\ \A i \in 1..Len(trace[p]) :
                  IsSubmit(trace[p][i], "deposit") =>
                      /\ ApprovalConfirmedBefore(trace[p], i)
                      /\ \/ trace[p][i].allowance >= call[p].amount
                         \/ DisturbedBefore(trace[p], i)
            /\ ApprovalFailed(trace[p]) => ~DepositSubmitted(trace[p])
\* a deposit was submitted, undisturbed, while the other caller was in a call
C4_Witness ==
    \E p \in Procs, q \in Procs :
        /\ p # q
        /\ call[p].op = "depositToEscrow"
        /\ DepositSubmitted(trace[p])
        /\ ~Disturbed(trace[p])
        /\ pc[q] \in {"sendApprove", "waitApprove", "approved", "send", "wait"}

(***************************************************************************)
(* C5: no ledger operation retries: one invocation of a channel write or   *)
(* of withdrawFromEscrow submits at most one transaction, one invocation   *)
(* of depositToEscrow at most one approval and at most one deposit, and a  *)
(* failure ends the invocation with the error raised to the caller.        *)
(***************************************************************************)
C5_NoRetryFailuresPropagate ==
    \A p \in Procs :
        /\ call[p].op = "depositToEscrow" =>
              /\ SubmitCount(trace[p], "approve") <= 1
              /\ SubmitCount(trace[p], "deposit") <= 1
              /\ SubmitTotal(trace[p])
                   = SubmitCount(trace[p], "approve") + SubmitCount(trace[p], "deposit")
        /\ call[p].op \in {"openChannel", "addFundsToChannel", "extendChannel",
                           "claimChannelTimeout", "withdrawFromEscrow"} =>
              /\ SubmitTotal(trace[p]) <= 1
              /\ SubmitTotal(trace[p]) = SubmitCount(trace[p], ClientTx(call[p]).op)
        /\ \A i \in 1..Len(trace[p]) :
              trace[p][i].ev = "fail" =>
                  /\ i = Len(trace[p])
                  /\ pc[p] = "threw"
                  /\ err[p] = EthersError(trace[p][i].cause)
\* a transaction that was submitted reverted when mined, and the call raised
C5_Witness ==
    \E p \in Procs :
        /\ pc[p] = "threw"
        /\ Len(trace[p]) = 2
        /\ trace[p][1].ev = "submit"
        /\ trace[p][2] = Failed("revert")

(***************************************************************************)
(* C6: a claimChannelTimeout on an own, unreclaimed channel that is        *)
(* submitted below the channel's expiration fails with ContractRejected    *)
(* and leaves the channel value and the escrow balance unchanged; at or    *)
(* past the expiration it is sent, and once mined it returns and has moved *)
(* the channel's whole value to the sender's escrow balance.               *)
(***************************************************************************)
OwnChannel(id) == ChannelsRead(id).sender = WalletAddr
CallBegins(p) ==
    /\ pc[p] \in {"idle", "returned", "threw"}
    /\ <<pc[p], call[p], trace[p], ret[p], err[p]>>
         # <<pc'[p], call'[p], trace'[p], ret'[p], err'[p]>>
C6_ClaimTimeoutByHeight ==
    [][\A p \in Procs :
          /\ ( /\ CallBegins(p)
               /\ call'[p].op = "claimChannelTimeout"
               /\ wallet
               /\ OwnChannel(call'[p].channelId)
               /\ call'[p].channelId \notin reclaimed
               /\ err'[p] # NetworkError )
                => IF height < ChannelsRead(call'[p].channelId).expiration
                   THEN /\ pc'[p] = "threw"
                        /\ err'[p].name = "ContractRejected"
                        /\ UNCHANGED ContractState
                   ELSE pc'[p] = "send"
          /\ ( /\ pc[p] = "wait"
               /\ pc'[p] # "wait"
               /\ call[p].op = "claimChannelTimeout" )
                => /\ pc'[p] = "returned"
                   /\ escrowBal' = escrowBal + ChannelsRead(call[p].channelId).value
                   /\ channels'[call[p].channelId + 1].value = 0
      ]_vars

(***************************************************************************)
(* C7 as stated: whenever openChannel returns, the channelId of its result *)
(* is the id the ledger assigned to the new channel in that transaction.   *)
(***************************************************************************)
OpenReturned(p) == pc[p] = "returned" /\ call[p].op = "openChannel"
\* the id of the channel the latest openChannel transaction created
AssignedId == Len(channels) - 1
\* the receipt of that transaction holds a log whose first topic is the
\* ChannelOpen signature the client looks for
ReceiptHasChannelOpen(p) ==
    LET logs == OpenChannelLogs(AssignedId, ClientTx(call[p]))
    IN  \E i \in 1..Len(logs) : logs[i].topics[1] = EthersId(ClientChannelOpen)
C7_ChannelIdIsAssignedId ==
    \A p \in Procs : OpenReturned(p) => ret[p].channelId = AssignedId

(***************************************************************************)
(* C7 as amended: whenever openChannel returns and the receipt holds a log *)
(* matching the ChannelOpen signature, the channelId of the result is the  *)
(* id the ledger assigned in that transaction, as the event carries it.    *)
(***************************************************************************)
C7_ChannelIdFromMatchingEvent ==
    \A p \in Procs :
        (OpenReturned(p) /\ ReceiptHasChannelOpen(p)) => ret[p].channelId = AssignedId
\* a second channel was opened by the same wallet and its id, 1, returned
C7_Witness ==
    \E p \in Procs :
        /\ OpenReturned(p)
        /\ ReceiptHasChannelOpen(p)
        /\ AssignedId = 1
        /\ ret[p].channelId = 1

(***************************************************************************)
(* C8: when the receipt of an openChannel transaction holds no log         *)
(* matching the ChannelOpen signature, openChannel raises no error and     *)
(* returns channelId 0: the very result of opening the channel of id 0.    *)
(***************************************************************************)
C8_MissingEventYieldsZero ==
    \A p \in Procs :
        (OpenReturned(p) /\ ~ReceiptHasChannelOpen(p)) =>
            /\ err[p] = NoError
            /\ ret[p].channelId = 0
            /\ ret[p] = OpenChannelResult(p, call[p],
                            ReceiptLogs(0, ClientTx(call[p]), AbiChannelOpen))
\* the channel that was opened has id 1 and the call returned 0
C8_Witness ==
    \E p \in Procs :
        /\ OpenReturned(p)
        /\ ~ReceiptHasChannelOpen(p)
        /\ AssignedId = 1
        /\ ret[p].channelId = 0

(***************************************************************************)
(* C9: getChannel(id) on an id the ledger never assigned fails with a      *)
(* ChannelNotFound error and never returns a channel record.               *)
(***************************************************************************)
C9_GetChannelNotFound ==
    \A p \in Procs :
        (call[p].op = "getChannel" /\ ~ChannelExists(call[p].channelId)) =>
            /\ pc[p] # "returned"
            /\ (pc[p] = "threw" /\ err[p] # NetworkError) => err[p].name = "ChannelNotFound"

(***************************************************************************)
(* Singularitynet.execute on the paymentChannel resource: the loop over    *)
(* the input items, the handler executePaymentChannelAction called for     *)
(* each item, and the catch around it.                                     *)
(***************************************************************************)
CogsPerAgix == 100000000
\* BigInt(Math.floor(amount * 1e8)) on a whole number of AGIX
AmountInCogs(amount) == amount * CogsPerAgix

NodeOps == {"addFunds", "extendExpiry", "claimTimeout"}
\* channel ids an item may name: the channel of InitExec and an unassigned id
ItemIds == {0, MaxChannels}
ItemParams(operation) ==
    CASE operation = "addFunds" ->
            {[channelId |-> i, amount |-> a] : i \in ItemIds, a \in PosAmounts}
      [] operation = "extendExpiry" ->
            {[channelId |-> i, expiration |-> e] : i \in ItemIds, e \in Expirations}
      [] operation = "claimTimeout" -> {[channelId |-> i] : i \in ItemIds}
      [] operation = "openChannel" ->
            {[amount |-> a, expiration |-> e] : a \in PosAmounts, e \in Expirations}
      [] operation = "getChannel" -> {[channelId |-> i] : i \in ItemIds}
      [] operation = "depositToEscrow" -> {[amount |-> a] : a \in PosAmounts}
ItemLists(operation) ==
    UNION {[1..n -> ItemParams(operation)] : n \in 1..MaxItems}

\* executePaymentChannelAction: the client call made for an item;
\* currentBlock is what getCurrentBlock returned
HandlerCall(operation, params, currentBlock) ==
    CASE operation = "addFunds" ->
            [op |-> "addFundsToChannel", channelId |-> params.channelId,
             amount |-> AmountInCogs(params.amount)]
      [] operation = "extendExpiry" ->
            [op |-> "extendChannel", channelId |-> params.channelId,
             newExpiration |-> currentBlock + params.expiration]
      [] operation = "claimTimeout" ->
            [op |-> "claimChannelTimeout", channelId |-> params.channelId]
      [] operation = "openChannel" ->
            [op |-> "openChannel", recipient |-> Recipient, groupId |-> GroupId,
             amount |-> AmountInCogs(params.amount),
             expiration |-> currentBlock + params.expiration]
      [] operation = "getChannel" ->
            [op |-> "getChannel", channelId |-> params.channelId]
      [] operation = "depositToEscrow" ->
            [op |-> "depositToEscrow", amount |-> AmountInCogs(params.amount)]

\* executePaymentChannelAction: the plain object it returns; the account
\* resource's depositToEscrow: the array of one item it returns
HandlerResult(operation, params, clientCall, result) ==
    IF operation = "depositToEscrow"
    THEN [type |-> "array",
          value |-> <<[json |-> [success |-> result.status = "success",
                                 transactionHash |-> result.hash,
                                 amountDeposited |-> params.amount,
                                 amountInCogs |-> clientCall.amount]]>>]
    ELSE
    [type |-> "object",
     value |->
        CASE operation = "addFunds" ->
                [success |-> TRUE, operation |-> operation, channelId |-> params.channelId,
                 amount |-> params.amount, transactionHash |-> result.hash]
          [] operation = "extendExpiry" ->
                [success |-> TRUE, operation |-> operation, channelId |-> params.channelId,
                 newExpiration |-> clientCall.newExpiration,
                 transactionHash |-> result.hash]
          [] operation = "claimTimeout" ->
                [success |-> TRUE, operation |-> operation, channelId |-> params.channelId,
                 transactionHash |-> result.hash]
          [] operation = "openChannel" ->
                [success |-> TRUE, operation |-> operation, channelId |-> result.channelId,
                 recipient |-> clientCall.recipient, groupId |-> clientCall.groupId,
                 amount |-> params.amount, expirationBlock |-> clientCall.expiration,
                 transactionHash |-> result.tx.hash]
          [] operation = "getChannel" ->
                [success |-> TRUE, channelId |-> result.channelId, nonce |-> result.nonce,
                 sender |-> result.sender, signer |-> result.signer,
                 recipient |-> result.recipient, groupId |-> result.groupId,
                 value |-> result.value, expiration |-> result.expiration]]

\* `returnData.push(...result)`: the spread needs an iterable
Iterable(v) == v.type = "array"
SpreadError ==
    [name |-> "TypeError", code |-> "none", message |-> "Spread syntax requires ...iterable[Symbol.iterator] to be a function"]

\* execute's catch: the item pushed when continueOnFail() is set
ErrorItem(e, i) == [json |-> [error |-> e.message], pairedItem |-> [item |-> i - 1]]

InitExec ==
    /\ IdleSig
    /\ IdleSdk
    /\ height = 0
    /\ abiEvents = TRUE
    /\ tokenBal = 0
    /\ allowance = 0
    /\ escrowBal = AmountInCogs(1)
    /\ channels = <<Channel(0, WalletAddr, WalletAddr, Recipient, GroupId, AmountInCogs(1), 1)>>
    /\ reclaimed = {}
    /\ wallet = TRUE
    /\ pc = [p \in Procs |-> "idle"]
    /\ call = [p \in Procs |-> NoCall]
    /\ trace = [p \in Procs |-> <<>>]
    /\ ret = [p \in Procs |-> NoResult]
    /\ err = [p \in Procs |-> NoError]
    /\ nodeOp \in NodeOps
    /\ items \in ItemLists(nodeOp)
    /\ continueOnFail \in BOOLEAN
    /\ itemIndex = 1
    /\ returnData = <<>>
    /\ execPc = "loop"
    /\ execErr = NoError
    /\ IdleUtil

\* the loop body starts the handler for the item at itemIndex, which builds
\* the client and enters the client method
HandlerStart(netOk) ==
    /\ execPc = "loop"
    /\ itemIndex <= Len(items)
    /\ BeginCall("p1", HandlerCall(nodeOp, items[itemIndex], height), netOk)
    /\ execPc' = "handler"
    /\ UNCHANGED <<nodeOp, items, continueOnFail, itemIndex, returnData, execErr, utilVars>>

\* a catch block that never rethrows
Caught_alwaysContinue(e) ==
    /\ returnData' = Append(returnData, ErrorItem(e, itemIndex))
    /\ itemIndex' = itemIndex + 1
    /\ execPc' = "loop"
    /\ UNCHANGED execErr
\* execute's catch block
Caught(e) ==
    IF continueOnFail
    THEN /\ returnData' = Append(returnData, ErrorItem(e, itemIndex))
         /\ itemIndex' = itemIndex + 1
         /\ execPc' = "loop"
         /\ UNCHANGED execErr
    ELSE /\ execPc' = "threw"
         /\ execErr' = e
         /\ UNCHANGED <<returnData, itemIndex>>

\* the handler's promise settles: its result is spread into returnData, or
\* its error is caught
HandlerSettles ==
    /\ execPc = "handler"
    /\ pc["p1"] \in {"returned", "threw"}
    /\ IF pc["p1"] = "threw"
       THEN Caught(err["p1"])
       ELSE LET result == HandlerResult(nodeOp, items[itemIndex], call["p1"], ret["p1"])
            IN  IF Iterable(result)
                THEN /\ returnData' = returnData \o result.value
                     /\ itemIndex' = itemIndex + 1
                     /\ execPc' = "loop"
                     /\ UNCHANGED execErr
                ELSE Caught(SpreadError)
    /\ UNCHANGED <<nodeOp, items, continueOnFail, sigVars, sdkVars, ledgerVars, clientVars,
                   utilVars>>

\* the loop is over: execute returns [returnData]
ExecReturns ==
    /\ execPc = "loop"
    /\ itemIndex > Len(items)
    /\ execPc' = "returned"
    /\ UNCHANGED <<nodeOp, items, continueOnFail, itemIndex, returnData, execErr,
                   sigVars, sdkVars, ledgerVars, clientVars, utilVars>>

(***************************************************************************)
(* SpecExec: one run of execute over a list of items of one paymentChannel *)
(* write operation, on a ledger that holds one channel of the wallet.      *)
(***************************************************************************)
NextExec ==
    \/ \E netOk \in BOOLEAN : HandlerStart(netOk)
    \/ \E netOk \in BOOLEAN : Broadcast("p1", netOk)
    \/ Confirm("p1")
    \/ HandlerSettles
    \/ ExecReturns
    \/ Tick
SpecExec == InitExec /\ [][NextExec]_vars

(***************************************************************************)
(* C10: a failed ledger write reaches the caller as one of two error       *)
(* kinds: TransportError when the RPC or network failed, ContractRejected  *)
(* when the contract refused the operation; the error the client raises,   *)
(* the error execute throws and the item execute returns for the failure   *)
(* all carry that kind.                                                    *)
(***************************************************************************)
C10_ErrorKindsDistinguished ==
    LET last == trace["p1"][Len(trace["p1"])]
        kind == IF last.cause = "network" THEN "TransportError" ELSE "ContractRejected"
        \* the error kind an output item states
        ItemKind(item) == IF "kind" \in DOMAIN item.json THEN item.json.kind ELSE "none"
    IN  (pc["p1"] = "threw" /\ trace["p1"] # <<>> /\ last.ev = "fail") =>
            /\ err["p1"].name = kind
            /\ execPc = "threw" => execErr.name = kind
            /\ (execPc \in {"loop", "returned"} /\ returnData # <<>>) =>
                  ItemKind(returnData[Len(returnData)]) = kind

(***************************************************************************)
(* C11: channel writes are idempotent at the intent level: every mined     *)
(* addFundsToChannel(channel, a) raises the channel value by exactly a, so *)
(* two of them raise it by 2a; a claimChannelTimeout on an own channel     *)
(* that was already reclaimed moves no funds and is reported to the caller *)
(* as AlreadySettled.                                                      *)
(***************************************************************************)
C11_IntentIdempotence ==
    [][\A p \in Procs :
          /\ ( /\ pc[p] = "wait"
               /\ pc'[p] = "returned"
               /\ call[p].op = "addFundsToChannel" )
                => channels'[call[p].channelId + 1].value
                     = channels[call[p].channelId + 1].value + call[p].amount
          /\ ( /\ CallBegins(p)
               /\ call'[p].op = "claimChannelTimeout"
               /\ wallet
               /\ OwnChannel(call'[p].channelId)
               /\ call'[p].channelId \in reclaimed
               /\ err'[p] # NetworkError )
                => /\ UNCHANGED ContractState
                   /\ pc'[p] = "threw"
                   /\ err'[p].name = "AlreadySettled"
      ]_vars

(***************************************************************************)
(* C12.  The interleaving approve(a1), approve(a2), deposit(a1),           *)
(* deposit(a2) of two depositToEscrow calls p and q of one wallet: q's     *)
(* approval is mined after p's approveAgix has returned and before p's     *)
(* deposit is broadcast, and p's deposit has been mined or refused when    *)
(* q's deposit is.  RaceDecides(p, q) is the step in which the ledger      *)
(* accepts or refuses q's deposit in that interleaving.                    *)
(***************************************************************************)
RaceDecides(p, q) ==
    /\ p # q
    /\ call[p].op = "depositToEscrow"
    /\ call[q].op = "depositToEscrow"
    /\ Disturbed(trace[p])
    /\ \/ pc[p] = "returned"
       \/ pc[p] = "threw" /\ trace[p][Len(trace[p])] = Failed("revert")
    /\ pc[q] \in {"approved", "wait"}
    /\ pc'[q] \in {"returned", "threw"}
    /\ err'[q] # NetworkError

LimbBits == 15
Base == 2 ^ LimbBits
MantissaBits == 53
GuardBits == 120

BigNorm(a) ==
    LET nz == {i \in 1..Len(a) : a[i] # 0}
    IN  IF nz = {} THEN <<>> ELSE SubSeq(a, 1, CHOOSE i \in nz : \A j \in nz : j <= i)
Big(n) == BigNorm(<<n % Base, (n \div Base) % Base, n \div (Base * Base)>>)

\* a * k + carry for a small k
RECURSIVE BigMulSmall(_, _, _)
BigMulSmall(a, k, carry) ==
    IF a = <<>> THEN (IF carry = 0 THEN <<>> ELSE <<carry>>)
    ELSE LET t == a[1] * k + carry
         IN  <<t % Base>> \o BigMulSmall(Tail(a), k, t \div Base)
\* quotient (with leading zero limbs) and remainder of a by a small d
RECURSIVE BigDivSmall(_, _)
BigDivSmall(a, d) ==
    IF a = <<>> THEN [q |-> <<>>, r |-> 0]
    ELSE LET hi == BigDivSmall(Tail(a), d)
             t == hi.r * Base + a[1]
         IN  [q |-> <<t \div d>> \o hi.q, r |-> t % d]
RECURSIVE BigAdd(_, _, _)
BigAdd(a, b, carry) ==
    IF a = <<>> /\ b = <<>> THEN (IF carry = 0 THEN <<>> ELSE <<carry>>)
    ELSE LET x == IF a = <<>> THEN 0 ELSE a[1]
             y == IF b = <<>> THEN 0 ELSE b[1]
             t == x + y + carry
         IN  <<t % Base>> \o BigAdd(IF a = <<>> THEN a ELSE Tail(a),
                                     IF b = <<>> THEN b ELSE Tail(b), t \div Base)
RECURSIVE BigMul(_, _)
BigMul(a, b) ==
    IF b = <<>> THEN <<>>
    ELSE BigNorm(BigAdd(BigMulSmall(a, b[1], 0), <<0>> \o BigMul(a, Tail(b)), 0))
\* 10^d as a sequence of small factors
Pow10Factors(d) ==
    [i \in 1..(d \div 4) |-> 10000] \o (IF d % 4 = 0 THEN <<>> ELSE <<10 ^ (d % 4)>>)
\* a * 10^d and a / 10^d (quotient, and whether anything was cut off)
RECURSIVE BigMulSeq(_, _)
BigMulSeq(a, ks) == IF ks = <<>> THEN a ELSE BigMulSeq(BigMulSmall(a, ks[1], 0), Tail(ks))
BigMulPow10(a, d) == BigMulSeq(a, Pow10Factors(d))
RECURSIVE BigDivSeq(_, _)
BigDivSeq(a, ks) ==
    IF ks = <<>> THEN [q |-> a, sticky |-> FALSE]
    ELSE LET one == BigDivSmall(a, ks[1])
             rest == BigDivSeq(BigNorm(one.q), Tail(ks))
         IN  [q |-> rest.q, sticky |-> rest.sticky \/ one.r # 0]
BigDivPow10(a, d) == BigDivSeq(a, Pow10Factors(d))
\* a * 2^n, and a / 2^n (quotient, and whether any one-bit was cut off)
BigShl(a, n) ==
    BigNorm(BigMulSmall([i \in 1..(n \div LimbBits) |-> 0] \o a, 2 ^ (n % LimbBits), 0))
BigShr(a, n) ==
    LET w == n \div LimbBits
        low == SubSeq(a, 1, IF w < Len(a) THEN w ELSE Len(a))
        d == BigDivSmall(SubSeq(a, w + 1, Len(a)), 2 ^ (n % LimbBits))
    IN  [q |-> BigNorm(d.q), sticky |-> d.r # 0 \/ \E i \in 1..Len(low) : low[i] # 0]
BitLen(a) ==
    IF a = <<>> THEN 0
    ELSE LimbBits * (Len(a) - 1)
           + (CHOOSE b \in 1..LimbBits : 2 ^ (b - 1) <= a[Len(a)] /\ a[Len(a)] < 2 ^ b)

NaN == [kind |-> "nan"]
Infinity(neg) == [kind |-> "inf", neg |-> neg]
\* the double nearest to (-1)^neg * (t + f) * 2^e, where 0 <= f < 1 and
\* sticky tells whether f > 0
RoundToDouble(neg, t, sticky, e) ==
    LET len == BitLen(t)
    IN  IF t = <<>> THEN [kind |-> "num", neg |-> neg, m |-> <<>>, e |-> 0]
        ELSE IF len <= MantissaBits
        THEN [kind |-> "num", neg |-> neg, m |-> BigShl(t, MantissaBits - len),
              e |-> e - (MantissaBits - len)]
        ELSE LET guard == BigShr(t, len - MantissaBits - 1)
                 top == BigShr(guard.q, 1)
                 up == top.sticky /\ (sticky \/ guard.sticky \/ top.q[1] % 2 = 1)
                 m1 == IF up THEN BigAdd(top.q, <<1>>, 0) ELSE top.q
             IN  IF BitLen(m1) > MantissaBits
                 THEN [kind |-> "num", neg |-> neg, m |-> BigShr(m1, 1).q,
                       e |-> e + (len - MantissaBits) + 1]
                 ELSE [kind |-> "num", neg |-> neg, m |-> m1,
                       e |-> e + (len - MantissaBits)]

\* the Number written as the decimal literal (-)digits * 10^exp10
Literal(neg, digits, exp10) ==
    IF exp10 >= 0 THEN RoundToDouble(neg, BigMulPow10(Big(digits), exp10), FALSE, 0)
    ELSE LET n == BigDivPow10(BigShl(Big(digits), GuardBits), -exp10)
         IN  RoundToDouble(neg, n.q, n.sticky, -GuardBits)
\* Number(bigint)
NumberOf(int) == RoundToDouble(int.neg, int.mag, FALSE, 0)
\* x * y
Times(x, y) ==
    IF x.kind = "nan" \/ y.kind = "nan" THEN NaN
    ELSE IF x.kind = "inf" \/ y.kind = "inf"
    THEN (IF (x.kind = "num" /\ x.m = <<>>) \/ (y.kind = "num" /\ y.m = <<>>) THEN NaN
          ELSE Infinity(x.neg # y.neg))
    ELSE RoundToDouble(x.neg # y.neg, BigMul(x.m, y.m), FALSE, x.e + y.e)
\* x / 10^d, the divisors of the code being 1e8, 1e18 and 1e6
DividedByPow10(x, d) ==
    IF x.kind # "num" THEN x
    ELSE LET n == BigDivPow10(BigShl(x.m, GuardBits), d)
         IN  RoundToDouble(x.neg, n.q, n.sticky, x.e - GuardBits)
\* Math.floor and Math.ceil; the result of a finite number is given as the
\* integer it is
Whole(x, towardsInf) ==
    IF x.kind # "num" THEN x
    ELSE LET cut == IF x.e >= 0 THEN [q |-> BigShl(x.m, x.e), sticky |-> FALSE]
                    ELSE BigShr(x.m, -x.e)
             away == cut.sticky /\ (x.neg # towardsInf)
             mag == IF away THEN BigNorm(BigAdd(cut.q, <<1>>, 0)) ELSE cut.q
         IN  [kind |-> "int", neg |-> x.neg /\ mag # <<>>, mag |-> mag]
MathFloor(x) == Whole(x, FALSE)
MathCeil(x) == Whole(x, TRUE)
\* BigInt(number) of a whole number; NaN and the infinities raise RangeError
RangeError == [kind |-> "throw", name |-> "RangeError"]
BigIntOf(w) == IF w.kind = "int" THEN [kind |-> "bigint", neg |-> w.neg, mag |-> w.mag]
               ELSE RangeError
(***************************************************************************)
(* unitConverter.ts and the block and deposit helpers of paymentUtils.ts.  *)
(***************************************************************************)
BigIntValue(n) == [kind |-> "bigint", neg |-> FALSE, mag |-> Big(n)]

agixToCogs(agix) == BigIntOf(MathFloor(Times(agix, Literal(FALSE, CogsPerAgix, 0))))
cogsToAgix(cogs) == DividedByPow10(NumberOf(cogs), 8)
ethToWei(eth) == BigIntOf(MathFloor(Times(eth, Literal(FALSE, 1, 18))))
weiToEth(wei) == DividedByPow10(NumberOf(wei), 18)
adaToLovelace(ada) == BigIntOf(MathFloor(Times(ada, Literal(FALSE, 1, 6))))
lovelaceToAda(lovelace) == DividedByPow10(NumberOf(lovelace), 6)

isChannelExpired_after(expiration, currentBlock) == currentBlock > expiration
isChannelExpired(expiration, currentBlock) == currentBlock >= expiration

calculateMinimumDeposit(pricePerCall, estimatedCalls, safetyMultiplier) ==
    LET baseDeposit == [kind |-> "bigint", neg |-> FALSE,
                        mag |-> BigMul(pricePerCall.mag, Big(estimatedCalls))]
    IN  BigIntOf(MathCeil(Times(NumberOf(baseDeposit), safetyMultiplier)))

(***************************************************************************)
(* SpecUtil: one utility function is applied to one input.  A display      *)
(* amount is written as a decimal literal with frac fractional digits, or  *)
(* is NaN or an infinity.                                                  *)
(***************************************************************************)
MaxDigits == 25
MaxFrac == 2
MaxUnits == 10
MaxBlock == 3

Decimal(neg, digits, frac) == [kind |-> "lit", neg |-> neg, digits |-> digits, frac |-> frac]
\* the Number an amount is
ToNumber(a) == IF a.kind = "lit" THEN Literal(a.neg, a.digits, -a.frac) ELSE a
DisplayAmounts ==
    {Decimal(neg, n, k) : neg \in BOOLEAN, n \in 0..MaxDigits, k \in 0..MaxFrac}
        \cup {NaN, Infinity(FALSE), Infinity(TRUE)}
ToSmallest == {"agixToCogs", "ethToWei", "adaToLovelace"}
ToDisplay == {"cogsToAgix", "weiToEth", "lovelaceToAda"}
UtilCalls ==
    {[fn |-> f, args |-> <<a>>] : f \in ToSmallest, a \in DisplayAmounts}
        \cup {[fn |-> f, args |-> <<BigIntValue(c)>>] : f \in ToDisplay, c \in 0..MaxUnits}
        \cup {[fn |-> "isChannelExpired", args |-> <<e, b>>] : e \in 0..MaxBlock, b \in 0..MaxBlock}
        \cup {[fn |-> "calculateMinimumDeposit", args |-> <<BigIntValue(p), n, s>>] :
                p \in {1, 1000000}, n \in {1, 100},
                s \in {Decimal(FALSE, 11, 1), Decimal(FALSE, 12, 1), Decimal(FALSE, 2, 0)}}

\* the outcome of a call
Outcome(fn, args) ==
    CASE fn = "agixToCogs" -> agixToCogs(ToNumber(args[1]))
      [] fn = "ethToWei" -> ethToWei(ToNumber(args[1]))
      [] fn = "adaToLovelace" -> adaToLovelace(ToNumber(args[1]))
      [] fn = "cogsToAgix" -> cogsToAgix(args[1])
      [] fn = "weiToEth" -> weiToEth(args[1])
      [] fn = "lovelaceToAda" -> lovelaceToAda(args[1])
      [] fn = "isChannelExpired" -> isChannelExpired(args[1], args[2])
      [] fn = "calculateMinimumDeposit" ->
            calculateMinimumDeposit(args[1], args[2], ToNumber(args[3]))

InitUtil ==
    /\ IdleSig
    /\ IdleSdk
    /\ IdleLedger
    /\ IdleClient
    /\ IdleExec
    /\ reads = <<>>
    /\ calc \in {[fn |-> c.fn, args |-> c.args, done |-> FALSE, out |-> NoResult] :
                    c \in UtilCalls}
Evaluate ==
    /\ calc.fn # "none"
    /\ ~calc.done
    /\ calc' = [calc EXCEPT !.done = TRUE, !.out = Outcome(calc.fn, calc.args)]
    /\ UNCHANGED <<reads, sigVars, sdkVars, ledgerVars, clientVars, execVars>>
SpecUtil == InitUtil /\ [][Evaluate]_vars

(***************************************************************************)
(* C14: agixToCogs, ethToWei and adaToLovelace reject a negative, NaN or   *)
(* infinite display amount with an InvalidAmount error (so that no         *)
(* operation built on them reaches the ledger with such an amount).        *)
(***************************************************************************)
C14_InvalidAmountRejected ==
    (calc.fn \in ToSmallest /\ calc.done) =>
        LET amount == calc.args[1]
        IN  (amount.kind # "lit" \/ (amount.neg /\ amount.digits > 0)) =>
                calc.out = [kind |-> "throw", name |-> "InvalidAmount"]

(***************************************************************************)
(* C15: unit conversion round-trips: for every non-negative integer c,     *)
(* agixToCogs(cogsToAgix(c)) = c, ethToWei(weiToEth(c)) = c and            *)
(* adaToLovelace(lovelaceToAda(c)) = c.                                    *)
(***************************************************************************)
C15_RoundTrip ==
    (calc.fn \in ToDisplay /\ calc.done) =>
        LET back == CASE calc.fn = "cogsToAgix" -> agixToCogs(calc.out)
                      [] calc.fn = "weiToEth" -> ethToWei(calc.out)
                      [] calc.fn = "lovelaceToAda" -> adaToLovelace(calc.out)
        IN  back = calc.args[1]

(***************************************************************************)
(* C16: the forward conversion is exact integer scaling: for a             *)
(* non-negative display amount with at most d fractional digits (d = 8     *)
(* for AGIX, 18 for ETH, 6 for ADA) the result is exactly amount x 10^d,   *)
(* and the inline conversion of the payment-channel handlers,              *)
(* BigInt(Math.floor(amount * 1e8)), gives the same result as agixToCogs.  *)
(***************************************************************************)
C16_ExactScaling ==
    (calc.fn \in ToSmallest /\ calc.done /\ calc.args[1].kind = "lit"
        /\ ~calc.args[1].neg) =>
        LET amount == calc.args[1]
            d == CASE calc.fn = "agixToCogs" -> 8
                   [] calc.fn = "ethToWei" -> 18
                   [] calc.fn = "adaToLovelace" -> 6
        IN  /\ calc.out = [kind |-> "bigint", neg |-> FALSE,
                           mag |-> BigMulPow10(Big(amount.digits), d - amount.frac)]
            /\ calc.fn = "agixToCogs" =>
                  calc.out = BigIntOf(MathFloor(Times(ToNumber(amount), Literal(FALSE, 1, 8))))

(***************************************************************************)
(* C17: calculateMinimumDeposit(pricePerCall, estimatedCalls,              *)
(* safetyMultiplier) is the exact integer ceiling of pricePerCall x        *)
(* estimatedCalls x safetyMultiplier; for price 1000000 cogs, 100 calls    *)
(* and multiplier 1.1 it is exactly 110000000 cogs.                        *)
(***************************************************************************)
C17_MinimumDepositIsExactCeiling ==
    (calc.fn = "calculateMinimumDeposit" /\ calc.done) =>
        LET s == calc.args[3]
            product == BigMul(BigMul(calc.args[1].mag, Big(calc.args[2])), Big(s.digits))
            scaled == BigDivPow10(product, s.frac)
            ceiling == IF scaled.sticky THEN BigNorm(BigAdd(scaled.q, <<1>>, 0)) ELSE scaled.q
        IN  calc.out = [kind |-> "bigint", neg |-> FALSE, mag |-> ceiling]

(***************************************************************************)
(* C18: isChannelExpired(expiration, currentBlock) is true exactly when    *)
(* currentBlock >= expiration: false at currentBlock = expiration - 1 and  *)
(* true at currentBlock = expiration.                                      *)
(***************************************************************************)
C18_ExpiredFromExpirationOn ==
    (calc.fn = "isChannelExpired" /\ calc.done) =>
        LET expiration == calc.args[1]
            currentBlock == calc.args[2]
        IN  /\ currentBlock = expiration - 1 => calc.out = FALSE
            /\ currentBlock = expiration => calc.out = TRUE
            /\ calc.out = TRUE <=> ~(currentBlock < expiration)
\* the function was applied at the expiration block of a channel
C18_Witness ==
    /\ calc.fn = "isChannelExpired"
    /\ calc.done
    /\ calc.args[1] > 0
    /\ calc.args[2] = calc.args[1]
    /\ calc.out = TRUE

(***************************************************************************)
(* getChannelBalances: one getChannel read per requested id, all issued at *)
(* once and awaited together with Promise.all.                             *)
(***************************************************************************)
MaxIds == 2

\* channelIds.split(',').map((id) => parseInt(id.trim(), 10))
RequestedIds(channelIds) == [i \in 1..Len(channelIds) |-> ParseInt(channelIds[i], 10)]

\* the entry one read gives: the channel's balance record, or the error
\* message when getChannel raised
ReadEntry(channelId, ok) ==
    IF ok
    THEN LET channel == getChannel(channelId)
         IN  [channelId |-> channelId, balance |-> cogsToAgix(BigIntValue(channel.value)),
              nonce |-> channel.nonce, expiration |-> channel.expiration,
              sender |-> channel.sender, recipient |-> channel.recipient]
    ELSE [channelId |-> channelId, error |-> NetworkError.message]

\* Promise.all: the values of the settled reads in the order of the requests
PromiseAll_completionOrder(settled, n) == [k \in 1..n |-> settled[k].entry]
PromiseAll(settled, n) ==
    [i \in 1..n |-> settled[CHOOSE k \in 1..Len(settled) : settled[k].index = i].entry]

\* the ledger the reads are made on: a channel of the wallet and a channel
\* of another account
ReadLedger ==
    <<Channel(0, WalletAddr, WalletAddr, Recipient, GroupId, 3, 1), ForeignChannel>>
InitReads ==
    /\ IdleSig
    /\ IdleSdk
    /\ height = 0
    /\ abiEvents = TRUE
    /\ tokenBal = 0
    /\ allowance = 0
    /\ escrowBal = 0
    /\ channels = ReadLedger
    /\ reclaimed = {}
    /\ wallet \in BOOLEAN
    /\ pc = [p \in Procs |-> "idle"]
    /\ call = [p \in Procs |-> NoCall]
    /\ trace = [p \in Procs |-> <<>>]
    /\ ret = [p \in Procs |-> NoResult]
    /\ err = [p \in Procs |-> NoError]
    /\ nodeOp = "getChannelBalances"
    /\ \E n \in 1..MaxIds :
          items \in {<<[channelIds |-> [i \in 1..n |-> [prefix |-> "", digits |-> <<d[i]>>]]]>> :
                        d \in [1..n -> 0..MaxChannels]}
    /\ continueOnFail = FALSE
    /\ itemIndex = 1
    /\ returnData = <<>>
    /\ execPc = "handler"
    /\ execErr = NoError
    /\ calc = NoCalc
    /\ reads = <<>>

\* the read of the i-th requested id settles: getChannel returned, or it
\* raised (the RPC endpoint failed) and the error was caught
ReadSettles(i, netOk) ==
    /\ nodeOp = "getChannelBalances"
    /\ execPc = "handler"
    /\ i \in 1..Len(items[itemIndex].channelIds)
    /\ \A k \in 1..Len(reads) : reads[k].index # i
    /\ reads' = Append(reads, [index |-> i, ok |-> netOk,
                               entry |-> ReadEntry(RequestedIds(items[itemIndex].channelIds)[i],
                                                   netOk)])
    /\ UNCHANGED <<calc, sigVars, sdkVars, ledgerVars, clientVars, execVars>>

\* every read has settled: the handler returns the list of entries
ReadsReturn ==
    /\ nodeOp = "getChannelBalances"
    /\ execPc = "handler"
    /\ Len(reads) = Len(items[itemIndex].channelIds)
    /\ LET entries == PromiseAll(reads, Len(items[itemIndex].channelIds))
       IN  returnData' = <<[json |-> [channels |-> entries, totalChannels |-> Len(entries)]]>>
    /\ execPc' = "returned"
    /\ UNCHANGED <<nodeOp, items, continueOnFail, itemIndex, execErr,
                   sigVars, sdkVars, ledgerVars, clientVars, utilVars>>

NextReads ==
    \/ \E i \in 1..MaxIds, netOk \in BOOLEAN : ReadSettles(i, netOk)
    \/ ReadsReturn
SpecReads == InitReads /\ [][NextReads]_vars

(***************************************************************************)
(* C13: getChannelBalances submits no transaction and changes nothing on   *)
(* the ledger; it returns exactly one entry per requested id, in request   *)
(* order, whatever order the reads completed in; a read that failed gives  *)
(* an error entry for its own id, and every other entry is the balance     *)
(* record of its own channel.                                              *)
(***************************************************************************)
C13_ReadsInRequestOrder ==
    (nodeOp = "getChannelBalances" /\ execPc = "returned") =>
        LET ids == RequestedIds(items[itemIndex].channelIds)
            out == returnData[1].json.channels
            Failed_(i) == \E k \in 1..Len(reads) : reads[k].index = i /\ ~reads[k].ok
        IN  /\ Len(returnData) = 1
            /\ Len(out) = Len(ids)
            /\ returnData[1].json.totalChannels = Len(ids)
            /\ \A i \in 1..Len(ids) :
                  /\ out[i].channelId = ids[i]
                  /\ IF Failed_(i)
                     THEN out[i] = [channelId |-> ids[i], error |-> NetworkError.message]
                     ELSE /\ "error" \notin DOMAIN out[i]
                          /\ out[i].balance = cogsToAgix(BigIntValue(ChannelsRead(ids[i]).value))
                          /\ out[i].sender = ChannelsRead(ids[i]).sender
            /\ channels = ReadLedger
            /\ <<tokenBal, allowance, escrowBal, reclaimed>> = <<0, 0, 0, {}>>
            /\ \A p \in Procs : trace[p] = <<>> /\ pc[p] = "idle"
\* two different ids were read, the second read completed first, and exactly
\* one of the two reads failed
C13_Witness ==
    /\ nodeOp = "getChannelBalances"
    /\ execPc = "returned"
    /\ Len(reads) = 2
    /\ reads[1].index = 2
    /\ reads[1].ok # reads[2].ok
    /\ reads[1].entry.channelId # reads[2].entry.channelId


(***************************************************************************)
(* The verifier applied to whatever signature a caller presents:           *)
(* verifyPaymentSignature takes the signature as an argument, so it is     *)
(* drawn from the malformed strings and from the well-formed signatures    *)
(* of every key.                                                           *)
(***************************************************************************)
\* the signer of one wallet, before any signature or token is made
InitToken ==
    /\ InitSig
    /\ mpeAddr = AddrStr(MpeMainnet, "checksum")

\* one call of verifyPaymentSignature on a presented signature; a well-formed
\* one is made by key k over the claim (m, c, n, a)
VerifyPresented(mpeAddress, channelId, nonce, amount, signature, expectedSigner) ==
    /\ ~lastVerify.called
    /\ lastVerify' = [called |-> TRUE, mpeAddress |-> mpeAddress, channelId |-> channelId,
                      nonce |-> nonce, amount |-> amount,
                      signature |-> signature, expectedSigner |-> expectedSigner,
                      result |-> verifyPaymentSignature(mpeAddress, channelId, nonce,
                                     amount, signature, expectedSigner)]
    /\ UNCHANGED <<signerKey, mpeAddr, issued, signFailures, sdkVars, ledgerVars, clientVars,
                   execVars, utilVars>>

NextVerify ==
    /\ ~lastVerify.called
    /\ \E m \in MpeStrings, c \in ChannelIds, n \in Nonces, a \in Amounts, e \in SignerStrings :
          \/ \E s \in MalformedSigs : VerifyPresented(m, c, n, a, s, e)
          \/ \E k \in Keys, nn \in Nonces :
                VerifyPresented(m, c, n, a,
                    SignMessage(k, ClaimPacked(MpeClaimTag, AddrStr(m.val, "checksum"), c, nn, a)), e)

SpecVerify == InitToken /\ [][NextVerify]_vars

\* C19: verifyPaymentSignature always answers with a boolean, and the answer
\* is false for every malformed signature (empty, not hexadecimal, wrong
\* length) and for every well-formed signature made by a key other than the
\* expected signer's
C19_NeverRaisesAndRejects ==
    lastVerify.called =>
        /\ lastVerify.result \in BOOLEAN
        /\ (\/ lastVerify.signature.fmt \in {s.fmt : s \in MalformedSigs}
            \/ /\ lastVerify.signature.fmt = "hex65"
               /\ AddrOf(lastVerify.signature.key) # lastVerify.expectedSigner.val)
           => lastVerify.result = FALSE

\* a signature that is not hexadecimal was checked against a well-formed claim
C19_Witness ==
    /\ lastVerify.called
    /\ lastVerify.signature = [fmt |-> "nonhex"]
    /\ ValidAddress(lastVerify.mpeAddress)
    /\ lastVerify.result = FALSE


(***************************************************************************)
(* paymentUtils.ts generateFreeCallToken.  The packed encoding puts the    *)
(* bytes of each field one after the other, so a string field may hold the *)
(* very 32 bytes that encode a number: FreeCallIds has such strings next   *)
(* to an ordinary one.  The token is the base64 text of the characters of  *)
(* the signature string; whoever receives it can decode it back to them.   *)
(***************************************************************************)
FreeCallTag_shared == MpeClaimTag
FreeCallTag == <<"_","_","f","r","e","e","_","c","a","l","l","_","p","r","e","f","i","x">>
FreeCallIds == {<<<<"char", "s">>, <<"char", "n">>>>} \cup {PackUint256(n) : n \in Nonces}

\* Buffer.from(text): the bytes of the characters of the text
Utf8Bytes(text) == [fmt |-> "utf8", text |-> text]
\* Buffer.from(signature.slice(2), 'hex'): the 65 bytes the hex digits spell
HexBytes(signature) == [fmt |-> "raw65", key |-> signature.key, digest |-> signature.digest]
\* buffer.toString('base64') and its inverse
Base64(bytes) == [fmt |-> "base64", of |-> bytes]
Base64Decode(text) == text.of

\* the message generateFreeCallToken signs
FreeCallMessage(userAddress, organizationId, serviceId, currentBlock) ==
    PackString(FreeCallTag) \o PackAddress(userAddress)
        \o PackString(organizationId) \o PackString(serviceId)
        \o PackUint256(currentBlock)

generateFreeCallToken(signer, userAddress, organizationId, serviceId, currentBlock) ==
    IF ValidAddress(userAddress) /\ ValidUint256(currentBlock)
    THEN LET message == FreeCallMessage(userAddress, organizationId, serviceId, currentBlock)
             signature == SignMessage(signer, message)
         IN  [ok |-> TRUE, token |-> Base64(Utf8Bytes(signature))]
    ELSE [ok |-> FALSE]

\* one call of generateFreeCallToken by the holder of signerKey
IssueToken(userAddress, organizationId, serviceId, currentBlock) ==
    /\ Len(issued) + signFailures < MaxIssued
    /\ LET r == generateFreeCallToken(signerKey, userAddress, organizationId, serviceId,
                                      currentBlock)
       IN  IF ~r.ok
           THEN /\ signFailures' = signFailures + 1
                /\ UNCHANGED issued
           ELSE /\ issued' = Append(issued, [userAddress |-> userAddress,
                                             organizationId |-> organizationId,
                                             serviceId |-> serviceId,
                                             currentBlock |-> currentBlock,
                                             token |-> r.token])
                /\ UNCHANGED signFailures
    /\ UNCHANGED <<signerKey, mpeAddr, lastVerify, sdkVars, ledgerVars, clientVars, execVars, utilVars>>

\* one call of verifyPaymentSignature on the issued token, as returned
\* (decoded = FALSE) or decoded back to the signature, with the address of
\* the token's signer as the expected signer
VerifyToken(mpeAddress, channelId, nonce, amount, decoded) ==
    /\ Len(issued) = 1
    /\ ~lastVerify.called
    /\ LET signature == IF decoded THEN Base64Decode(issued[1].token).text
                        ELSE issued[1].token
           expectedSigner == AddrStr(AddrOf(signerKey), "checksum")
       IN  lastVerify' = [called |-> TRUE, mpeAddress |-> mpeAddress, channelId |-> channelId,
                           nonce |-> nonce, amount |-> amount,
                           signature |-> signature, expectedSigner |-> expectedSigner,
                           result |-> verifyPaymentSignature(mpeAddress, channelId, nonce,
                                          amount, signature, expectedSigner)]
    /\ UNCHANGED <<signerKey, mpeAddr, issued, signFailures, sdkVars, ledgerVars, clientVars,
                   execVars, utilVars>>

NextToken ==
    \/ /\ Len(issued) + signFailures = 0
       /\ \E u \in {x \in MpeStrings : x.form # "lower"}, o \in FreeCallIds, s \in FreeCallIds,
             b \in Amounts : IssueToken(u, o, s, b)
    \/ \E m \in MpeStrings, c \in ChannelIds, n \in Nonces, a \in Amounts, d \in BOOLEAN :
          VerifyToken(m, c, n, a, d)

SpecToken == InitToken /\ [][NextToken]_vars

\* C20: the signature inside a free-call token never verifies as a payment
\* signature of the same signer, for any MPE address, channel, nonce and
\* amount, whether the token is presented as returned or decoded
C20_TokenIsNoPayment ==
    (lastVerify.called /\ Len(issued) = 1) => lastVerify.result = FALSE

\* the decoded signature was checked against the claim whose fields are the
\* token's bytes after the tag: only the tags differ
C20_Witness ==
    /\ lastVerify.called
    /\ Len(issued) = 1
    /\ lastVerify.signature = Base64Decode(issued[1].token).text
    /\ lastVerify.mpeAddress.val = issued[1].userAddress.val
    /\ ValidAddress(lastVerify.mpeAddress)
    /\ issued[1].organizationId = PackUint256(lastVerify.channelId)
    /\ issued[1].serviceId = PackUint256(lastVerify.nonce)
    /\ issued[1].currentBlock = lastVerify.amount
    /\ lastVerify.result = FALSE


(***************************************************************************)
(* Several free-call tokens of one signer.  The organisation and service   *)
(* ids are short strings over two characters, the empty string included,   *)
(* so that the same characters can be split between the two in more than   *)
(* one way.                                                                *)
(***************************************************************************)
SplitIds ==
    {<<>>, <<<<"char", "a">>>>, <<<<"char", "b">>>>, <<<<"char", "a">>, <<"char", "b">>>>}

NextBind ==
    \E o \in SplitIds, s \in SplitIds, b \in 0..MaxHeight :
        IssueToken(AddrStr(MpeMainnet, "checksum"), o, s, b)

SpecBind == InitToken /\ [][NextBind]_vars

\* C21: two free-call tokens whose tuples (userAddress, organizationId,
\* serviceId, currentBlock) differ in any component, also when they differ
\* only in how the same characters are split between organizationId and
\* serviceId, are never signatures over the same message
C21_TokenBindsTuple ==
    \A i \in 1..Len(issued), j \in 1..Len(issued) :
        Base64Decode(issued[i].token).text.digest = Base64Decode(issued[j].token).text.digest
            => /\ issued[i].userAddress.val = issued[j].userAddress.val
               /\ issued[i].organizationId = issued[j].organizationId
               /\ issued[i].serviceId = issued[j].serviceId
               /\ issued[i].currentBlock = issued[j].currentBlock


(***************************************************************************)
(* paymentUtils.ts createPaymentMetadata and GrpcClient's static method of *)
(* the same name: the headers of a paid call.                              *)
(***************************************************************************)
\* Number.prototype.toString / BigInt.prototype.toString of a natural number
\* below 1e21: its decimal digits
RECURSIVE NumberToString(_)
NumberToString(n) ==
    IF n < 10 THEN <<n>> ELSE NumberToString(n \div 10) \o <<n % 10>>

createPaymentMetadata(channelId, nonce, amount, signature) ==
    [h \in PaymentHeaderNames |->
        CASE h = "snet-payment-type" -> "escrow"
          [] h = "snet-payment-channel-id" -> NumberToString(channelId)
          [] h = "snet-payment-channel-nonce" -> NumberToString(nonce)
          [] h = "snet-payment-channel-amount" -> NumberToString(amount)
          [] h = "snet-payment-channel-signature-bin" -> Base64(HexBytes(signature))]

\* the signer authorizes a claim and the headers are built from it
CreateMetadata(channelId, nonce, amount) ==
    /\ calc = NoCalc
    /\ LET r == generatePaymentSignature(signerKey, mpeAddr, channelId, nonce, amount)
       IN  calc' = [fn |-> "createPaymentMetadata",
                    args |-> <<channelId, nonce, amount, r.signature>>,
                    done |-> TRUE,
                    out |-> createPaymentMetadata(channelId, nonce, amount, r.signature)]
    /\ UNCHANGED <<sigVars, sdkVars, ledgerVars, clientVars, execVars, reads>>

NextHeaders ==
    \/ \E c \in ChannelIds, n \in Nonces, a \in Amounts \cup {CogsPerAgix + MaxAmount} :
          CreateMetadata(c, n, a)
    \/ /\ Len(issued) + signFailures = 0
       /\ \E o \in SplitIds, s \in SplitIds, b \in 0..MaxHeight :
             IssueToken(AddrStr(MpeMainnet, "checksum"), o, s, b)

SpecHeaders == InitToken /\ [][NextHeaders]_vars

\* C22: base64-decoding the signature header of createPaymentMetadata, and
\* the token of generateFreeCallToken, gives exactly the raw bytes of the
\* signature the signer made, and the channel id, nonce and amount headers
\* are the decimal strings of the inputs
C22_SignatureBytesRoundTrip ==
    /\ calc # NoCalc =>
         /\ Base64Decode(calc.out["snet-payment-channel-signature-bin"]) = HexBytes(calc.args[4])
         /\ \A i \in 1..3 :
              LET text == calc.out[<<"snet-payment-channel-id", "snet-payment-channel-nonce",
                                     "snet-payment-channel-amount">>[i]]
              IN  /\ DigitsValue(text, 10) = calc.args[i]
                  /\ \A k \in 1..Len(text) : text[k] \in 0..9
                  /\ Len(text) = 1 \/ text[1] # 0
    /\ \A i \in 1..Len(issued) :
         LET a == issued[i]
         IN  Base64Decode(a.token) =
                 HexBytes(SignMessage(signerKey, FreeCallMessage(a.userAddress,
                              a.organizationId, a.serviceId, a.currentBlock)))


(***************************************************************************)
(* EthereumClient.isValidAddress and CardanoClient.isValidAddress.  A text *)
(* is described by what the two checks look at: the prefix it starts with  *)
(* (head), the characters that follow it (chars: decimal digits only, hex  *)
(* digits with lower-case, upper-case or mixed-case letters, lower-case    *)
(* letters beyond f, or anything else), how many follow (len), and whether *)
(* the checksum the letters' case or the ICAP digits encode is right (sum).*)
(* ICAP texts are taken with decimal digits only.                          *)
(***************************************************************************)
HexChars == {"digits", "hexlower", "hexupper", "hexmixed"}
LowerChars == {"digits", "hexlower", "lower"}
AddrTexts ==
    {[head |-> h, chars |-> c, len |-> n, sum |-> s] :
        h \in {"0x", "", "addr1", "addr_test1"},
        c \in HexChars \cup LowerChars \cup {"other"},
        n \in {0, 1, 32, 40, 41}, s \in BOOLEAN}
      \cup {[head |-> "XE", chars |-> "digits", len |-> n, sum |-> s] :
               n \in {0, 1, 32, 40, 41}, s \in BOOLEAN}

\* ethers.isAddress: getAddress takes /^(0x)?[0-9a-fA-F]{40}$/, refusing
\* mixed-case letters with a wrong checksum, and the ICAP form
\* /^XE[0-9]{2}[0-9A-Za-z]{30,31}$/ with the right IBAN checksum
isAddress(t) ==
    IF t.head \in {"0x", ""} /\ t.chars \in HexChars /\ t.len = 40
    THEN t.chars # "hexmixed" \/ t.sum
    ELSE IF t.head = "XE" /\ t.chars = "digits" /\ t.len \in {32, 33}
    THEN t.sum
    ELSE FALSE

\* cardanoClient.ts isValidAddress: /^addr(_test)?1[a-z0-9]+$/
CardanoIsValidAddress(t) ==
    /\ t.head \in {"addr1", "addr_test1"}
    /\ t.chars \in LowerChars
    /\ t.len >= 1

\* ethereumClient.ts isValidAddress
EthereumIsValidAddress(t) == isAddress(t)

InitClassify ==
    /\ IdleSig
    /\ IdleSdk
    /\ IdleLedger
    /\ IdleClient
    /\ IdleExec
    /\ reads = <<>>
    /\ calc \in {[fn |-> "isValidAddress", args |-> <<t>>, done |-> FALSE, out |-> NoResult] :
                    t \in AddrTexts}

\* both checks applied to the text, as the bridge's address validation does
Classify ==
    /\ calc.fn = "isValidAddress"
    /\ ~calc.done
    /\ calc' = [calc EXCEPT !.done = TRUE,
                            !.out = [ethereum |-> EthereumIsValidAddress(calc.args[1]),
                                     cardano |-> CardanoIsValidAddress(calc.args[1])]]
    /\ UNCHANGED <<reads, sigVars, sdkVars, ledgerVars, clientVars, execVars>>

SpecClassify == InitClassify /\ [][Classify]_vars

\* C23: a 0x-prefixed text of 40 hex digits is accepted by the Ethereum check
\* and rejected by the Cardano check, a text of the form addr1 followed by
\* lower-case letters and digits is accepted by the Cardano check and
\* rejected by the Ethereum check, every other text is rejected by both, and
\* no text is accepted by both
C23_ExclusiveSyntactic ==
    (calc.fn = "isValidAddress" /\ calc.done) =>
        LET t == calc.args[1]
            evm == t.head = "0x" /\ t.chars \in HexChars /\ t.len = 40
            utxo == t.head = "addr1" /\ t.chars \in LowerChars /\ t.len >= 1
        IN  /\ evm => calc.out.ethereum /\ ~calc.out.cardano
            /\ utxo => calc.out.cardano /\ ~calc.out.ethereum
            /\ (~evm /\ ~utxo) => ~calc.out.ethereum /\ ~calc.out.cardano
            /\ ~(calc.out.ethereum /\ calc.out.cardano)


(***************************************************************************)
(* IpfsClient: the gateway and the URL of a hash.  A text is a sequence of *)
(* pieces; a gateway is made of "/" and other pieces, a hash of the two    *)
(* prefixes cleanHash looks for and of other pieces, so that a prefix of   *)
(* the text in characters is a prefix in pieces.  The client is held in    *)
(* calc: the gateway given last, the stored gateway, and the hash and URL  *)
(* of the latest getUrl if one was asked for; sets counts the setGateway   *)
(* calls made so far.                                                      *)
(***************************************************************************)
MaxGateway == 2
MaxHash == 3
MaxSets == 2
Texts(pieces, n) == UNION {[1..k -> pieces] : k \in 0..n}
Gateways == Texts({"/", "gw"}, MaxGateway)
Hashes == Texts({"ipfs://", "/ipfs/", "Qm"}, MaxHash)

\* string.endsWith('/')
EndsWithSlash(text) == text # <<>> /\ text[Len(text)] = "/"
\* string.replace(/^prefix/, '')
RemoveLeading(text, prefix) ==
    IF text # <<>> /\ text[1] = prefix THEN Tail(text) ELSE text

\* constructor and setGateway: the gateway that is stored
StoredGateway(gateway) == IF EndsWithSlash(gateway) THEN gateway ELSE gateway \o <<"/">>

cleanHash_schemeOnly(hash) == RemoveLeading(hash, "ipfs://")
cleanHash(hash) == RemoveLeading(RemoveLeading(hash, "ipfs://"), "/ipfs/")

getUrl(client, hash) == client.gateway \o cleanHash(hash)

IpfsClient(gateway) ==
    [fn |-> "IpfsClient", given |-> gateway, gateway |-> StoredGateway(gateway),
     sets |-> 0, asked |-> FALSE, hash |-> <<>>, url |-> <<>>]

InitIpfs ==
    /\ IdleSig
    /\ IdleSdk
    /\ IdleLedger
    /\ IdleClient
    /\ IdleExec
    /\ reads = <<>>
    /\ calc \in {IpfsClient(g) : g \in Gateways}

setGateway(gateway) ==
    /\ calc.sets < MaxSets
    /\ calc' = [calc EXCEPT !.given = gateway, !.gateway = StoredGateway(gateway),
                            !.sets = calc.sets + 1,
                            !.asked = FALSE, !.hash = <<>>, !.url = <<>>]
    /\ UNCHANGED <<reads, sigVars, sdkVars, ledgerVars, clientVars, execVars>>

GetUrl(hash) ==
    /\ calc' = [calc EXCEPT !.asked = TRUE, !.hash = hash, !.url = getUrl(calc, hash)]
    /\ UNCHANGED <<reads, sigVars, sdkVars, ledgerVars, clientVars, execVars>>

NextIpfs ==
    \/ \E g \in Gateways : setGateway(g)
    \/ \E h \in Hashes : GetUrl(h)

SpecIpfs == InitIpfs /\ [][NextIpfs]_vars

\* the stored gateway ends with '/', and one was appended exactly when the
\* given gateway had none
GatewayNormalized ==
    /\ EndsWithSlash(calc.gateway)
    /\ calc.gateway = IF EndsWithSlash(calc.given) THEN calc.given ELSE calc.given \o <<"/">>

\* C24 as stated: the gateway ends with '/' after the constructor and after
\* every setGateway, and getUrl(h) is the gateway followed by h with one
\* leading 'ipfs://' or '/ipfs/' removed
C24_GatewayAndUrl ==
    /\ GatewayNormalized
    /\ calc.asked =>
         calc.url = calc.gateway \o
             (IF calc.hash # <<>> /\ calc.hash[1] \in {"ipfs://", "/ipfs/"}
              THEN Tail(calc.hash) ELSE calc.hash)

\* C24 amended: getUrl(h) is the gateway followed by h with a leading
\* 'ipfs://' removed and then a leading '/ipfs/' removed
C24_GatewayAndUrlBothPrefixes ==
    /\ GatewayNormalized
    /\ calc.asked =>
         LET h == calc.hash
             noScheme == IF h # <<>> /\ h[1] = "ipfs://" THEN Tail(h) ELSE h
             noPath == IF noScheme # <<>> /\ noScheme[1] = "/ipfs/" THEN Tail(noScheme)
                       ELSE noScheme
         IN  calc.url = calc.gateway \o noPath

\* a gateway given without its slash, and the URL of a hash with both prefixes
C24_Witness ==
    /\ calc.fn = "IpfsClient"
    /\ calc.sets > 0
    /\ calc.given = <<"gw">>
    /\ calc.hash = <<"ipfs://", "/ipfs/", "Qm">>
    /\ calc.url = <<"gw", "/", "Qm">>


(***************************************************************************)
(* SingularitynetTrigger.poll.  The trigger is held in calc: staticData    *)
(* is the node's workflow static data (lastBlock unset until a poll stores *)
(* it), args and result belong to the latest poll, prev is staticData as   *)
(* that poll found it, and emitted lists the block ranges of the items     *)
(* emitted so far.  A poll reads whatever height its RPC endpoint reports, *)
(* which need not grow from one poll to the next.                          *)
(***************************************************************************)
MaxPolls == 3
FirstWindow == 100
Unset == [set |-> FALSE, value |-> 0]
Stored(n) == [set |-> TRUE, value |-> n]
\* (staticData.lastBlock as number) || fallback: undefined and 0 are falsy
OrElse(stored, fallback) ==
    IF stored.set /\ stored.value # 0 THEN stored.value ELSE fallback
PollFailures == {"none", "client", "height", "address"}
ErrorOutput == [kind |-> "error"]
NullOutput == [kind |-> "null"]
EventOutput(from, to) == [kind |-> "event", from |-> from, to |-> to]

\* poll: what it returns and what it leaves in staticData.  client: the
\* EthereumClient constructor throws; height: getCurrentBlock rejects;
\* address: watchAddress is empty and no wallet is configured, so that
\* ethClient.getAddress() throws when the item is built
poll(staticData, currentBlock, failure) ==
    IF failure \in {"client", "height"}
    THEN [result |-> ErrorOutput, staticData |-> staticData]
    ELSE LET lastBlock == OrElse(staticData, currentBlock - FirstWindow)
         IN  IF currentBlock > lastBlock
             THEN IF failure = "address"
                  THEN [result |-> ErrorOutput, staticData |-> staticData]
                  ELSE [result |-> EventOutput(lastBlock + 1, currentBlock),
                        staticData |-> Stored(currentBlock)]
             ELSE [result |-> NullOutput, staticData |-> Stored(currentBlock)]

InitTrigger ==
    /\ IdleSig
    /\ IdleSdk
    /\ IdleLedger
    /\ IdleClient
    /\ IdleExec
    /\ reads = <<>>
    /\ calc = [fn |-> "poll", polls |-> 0, staticData |-> Unset, prev |-> Unset,
               args |-> [currentBlock |-> 0, failure |-> "none"], result |-> NullOutput,
               emitted |-> <<>>]

Poll(currentBlock, failure) ==
    /\ calc.polls < MaxPolls
    /\ LET r == poll(calc.staticData, currentBlock, failure)
       IN  calc' = [fn |-> "poll", polls |-> calc.polls + 1, staticData |-> r.staticData,
                    prev |-> calc.staticData,
                    args |-> [currentBlock |-> currentBlock, failure |-> failure],
                    result |-> r.result,
                    emitted |-> IF r.result.kind = "event"
                                THEN Append(calc.emitted, [from |-> r.result.from,
                                                           to |-> r.result.to])
                                ELSE calc.emitted]
    /\ UNCHANGED <<reads, sigVars, sdkVars, ledgerVars, clientVars, execVars>>

NextTrigger == \E h \in 0..MaxBlock, f \in PollFailures : Poll(h, f)

SpecTrigger == InitTrigger /\ [][NextTrigger]_vars

\* C25: a poll that reads height h with stored lastBlock L (h - 100 when
\* nothing is stored) emits one item with blockRange [L+1, h] when h > L and
\* returns null when h <= L, storing lastBlock = h in both cases; a poll whose
\* client cannot be created, whose height cannot be read or whose address
\* cannot be resolved returns one error item and leaves lastBlock unchanged
C25_PollWindow ==
    calc.polls > 0 =>
        LET h == calc.args.currentBlock
            L == IF calc.prev.set THEN calc.prev.value ELSE h - 100
        IN  IF calc.args.failure = "none"
            THEN /\ calc.staticData = Stored(h)
                 /\ h > L => calc.result = EventOutput(L + 1, h)
                 /\ h <= L => calc.result = NullOutput
            ELSE /\ calc.result = ErrorOutput
                 /\ calc.staticData = calc.prev

\* C28: the block ranges of the emitted items are consecutive, each starting
\* one block after the previous one ended, and the stored lastBlock never
\* decreases, whatever heights the polls read and whichever polls fail
C28_RangesConsecutive ==
    /\ \A i \in 1..(Len(calc.emitted) - 1) :
           calc.emitted[i + 1].from = calc.emitted[i].to + 1
    /\ (calc.prev.set /\ calc.staticData.set) => calc.staticData.value >= calc.prev.value


(***************************************************************************)
(* SpecRun: one run of execute over a list of items of any paymentChannel  *)
(* operation or of the account resource's depositToEscrow, whose handler   *)
(* returns an array.  The wallet holds tokens and an escrow balance, and   *)
(* the ledger holds one channel of the wallet.                             *)
(***************************************************************************)
ChannelOps == NodeOps \cup {"openChannel", "getChannel"}
RunOps == ChannelOps \cup {"depositToEscrow"}

InitRun ==
    /\ IdleSig
    /\ IdleSdk
    /\ IdleUtil
    /\ height = 0
    /\ abiEvents = TRUE
    /\ tokenBal = AmountInCogs(1)
    /\ allowance = 0
    /\ escrowBal = AmountInCogs(1)
    /\ channels = <<Channel(0, WalletAddr, WalletAddr, Recipient, GroupId, AmountInCogs(1), 1)>>
    /\ reclaimed = {}
    /\ wallet = TRUE
    /\ pc = [p \in Procs |-> "idle"]
    /\ call = [p \in Procs |-> NoCall]
    /\ trace = [p \in Procs |-> <<>>]
    /\ ret = [p \in Procs |-> NoResult]
    /\ err = [p \in Procs |-> NoError]
    /\ nodeOp \in RunOps
    /\ items \in ItemLists(nodeOp)
    /\ continueOnFail \in BOOLEAN
    /\ itemIndex = 1
    /\ returnData = <<>>
    /\ execPc = "loop"
    /\ execErr = NoError

NextRun ==
    \/ \E netOk \in BOOLEAN : HandlerStart(netOk)
    \/ \E netOk \in BOOLEAN : Broadcast("p1", netOk)
    \/ ConfirmApprove("p1")
    \/ \E netOk \in BOOLEAN : EstimateDeposit("p1", netOk)
    \/ Confirm("p1")
    \/ HandlerSettles
    \/ ExecReturns
    \/ Tick
SpecRun == InitRun /\ [][NextRun]_vars

\* the handler of the current item has settled and the try block throws:
\* the client call failed, or its result cannot be spread into returnData
ItemFails ==
    /\ execPc = "handler"
    /\ execPc' # "handler"
    /\ \/ pc["p1"] = "threw"
       \/ ~Iterable(HandlerResult(nodeOp, items[itemIndex], call["p1"], ret["p1"]))

\* C26: execute handles the items in index order, one at a time; with
\* continueOnFail every failing item i adds exactly one error entry paired
\* with item i and the loop goes on to the next item; without it the first
\* failing item aborts execute, which then never returns an output, while
\* the ledger keeps what the earlier items' transactions did
C26_ItemsInOrder ==
    [][ /\ itemIndex' \in {itemIndex, itemIndex + 1}
        /\ (execPc # "handler" /\ execPc' = "handler") =>
              /\ pc["p1"] \in {"idle", "returned", "threw"}
              /\ call'["p1"] = HandlerCall(nodeOp, items[itemIndex], height)
        /\ \A p \in Procs \ {"p1"} : pc'[p] = "idle"
        /\ ItemFails =>
              IF continueOnFail
              THEN /\ Len(returnData') = Len(returnData) + 1
                   /\ "error" \in DOMAIN returnData'[Len(returnData')].json
                   /\ returnData'[Len(returnData')].pairedItem.item = itemIndex - 1
                   /\ SubSeq(returnData', 1, Len(returnData)) = returnData
                   /\ itemIndex' = itemIndex + 1
                   /\ execPc' = "loop"
              ELSE /\ execPc' = "threw"
                   /\ UNCHANGED ContractState
        /\ (execPc' = "threw" /\ execPc # "threw") => (ItemFails /\ ~continueOnFail)
        /\ execPc = "threw" => execPc' = "threw"
        /\ execPc' = "returned" => itemIndex > Len(items)
      ]_vars

\* without continueOnFail the second item failed after the first one's
\* deposit was mined and its result collected: execute threw, and the escrow
\* balance keeps the deposit
C26_Witness ==
    /\ ~continueOnFail
    /\ execPc = "threw"
    /\ itemIndex = 2
    /\ Len(returnData) = 1
    /\ escrowBal = AmountInCogs(2)

\* C27: for every item whose payment-channel operation (openChannel,
\* getChannel, addFunds, extendExpiry, claimTimeout) completes without an
\* error from the ledger, execute adds the operation's result (success true,
\* with its channel id and, for a write, its transaction hash) to the output
\* and reports no error for the item
C27_SuccessReachesOutput ==
    [][ ( /\ nodeOp \in ChannelOps
          /\ execPc = "handler"
          /\ pc["p1"] = "returned"
          /\ execPc' # "handler" )
        => /\ execPc' = "loop"
           /\ Len(returnData') = Len(returnData) + 1
           /\ LET item == returnData'[Len(returnData')]
              IN  /\ "error" \notin DOMAIN item.json
                  /\ item.json.success = TRUE
      ]_vars


(***************************************************************************)
(* The EthereumClient of each network id: the network configuration it     *)
(* keeps (networks.ts NETWORKS) and the contract instances it builds       *)
(* (contracts.ts CONTRACT_ADDRESSES).  The client is held in calc with the *)
(* transactions its depositToEscrow calls have sent so far.                *)
(***************************************************************************)
NetworkIds == {"ethereumMainnet", "ethereumSepolia", "cardanoMainnet", "cardanoPreprod", "custom"}
EmptyString == [val |-> 0, form |-> "empty"]
Undefined == [name |-> "undefined"]

\* networks.ts getNetworkConfig: name and mpeAddress of NETWORKS[networkId]
getNetworkConfig(networkId) ==
    CASE networkId = "ethereumMainnet" ->
            [name |-> "Ethereum Mainnet", mpeAddress |-> AddrStr(MpeMainnet, "checksum")]
      [] networkId = "ethereumSepolia" ->
            [name |-> "Ethereum Sepolia", mpeAddress |-> AddrStr(MpeSepolia, "checksum")]
      [] networkId = "cardanoMainnet" ->
            [name |-> "Cardano Mainnet", mpeAddress |-> EmptyString]
      [] networkId = "cardanoPreprod" ->
            [name |-> "Cardano Preprod", mpeAddress |-> EmptyString]
      [] OTHER -> Undefined

\* contracts.ts CONTRACT_ADDRESSES[key].mpe
ContractAddressMpe(key) ==
    IF key = "ethereumMainnet" THEN AddrStr(MpeMainnet, "checksum")
    ELSE AddrStr(MpeSepolia, "checksum")

\* ethereumClient.ts initializeContracts: the address of this.contracts.mpe
initializeContracts(networkConfig) ==
    ContractAddressMpe(IF networkConfig.name = "Ethereum Mainnet" THEN "ethereumMainnet"
                       ELSE "ethereumSepolia")

\* ethereumClient.ts constructor
EthereumClient(network) ==
    LET networkConfig == getNetworkConfig(network)
    IN  IF networkConfig = Undefined
        THEN [fn |-> "EthereumClient", network |-> network, threw |-> TRUE, sent |-> <<>>]
        ELSE [fn |-> "EthereumClient", network |-> network, threw |-> FALSE,
              networkConfig |-> networkConfig,
              mpe |-> initializeContracts(networkConfig), sent |-> <<>>]

InitNetwork ==
    /\ IdleSig
    /\ IdleSdk
    /\ IdleLedger
    /\ IdleClient
    /\ IdleExec
    /\ reads = <<>>
    /\ calc \in {EthereumClient(n) : n \in NetworkIds}

\* depositToEscrow on the client: approveAgix names the spender
\* this.networkConfig.mpeAddress, which ethers refuses when it is not an
\* address; the deposit is then sent to the escrow contract instance
DepositOn(amount) ==
    /\ ~calc.threw
    /\ Len(calc.sent) + 2 <= 2 * MaxCalls
    /\ LET spender == calc.networkConfig.mpeAddress
           approve == [op |-> "approve", spender |-> spender, amount |-> amount]
           deposit == [op |-> "deposit", to |-> calc.mpe, amount |-> amount]
       IN  calc' = [calc EXCEPT !.sent = IF spender.form = "empty"
                                         THEN Append(@, [op |-> "refused", amount |-> amount])
                                         ELSE @ \o <<approve, deposit>>]
    /\ UNCHANGED <<reads, sigVars, sdkVars, ledgerVars, clientVars, execVars>>

NextNetwork == \E a \in 1..(MaxAmount + MaxCalls) : DepositOn(a)
SpecNetwork == InitNetwork /\ [][NextNetwork]_vars

\* C29: on every network an EthereumClient can be constructed with, the
\* spender approveAgix names in a depositToEscrow call is the address of the
\* escrow contract instance that the call then deposits to
C29_SpenderIsEscrow ==
    (calc.fn = "EthereumClient" /\ ~calc.threw /\ calc.sent # <<>>) =>
        /\ calc.networkConfig.mpeAddress = calc.mpe
        /\ \A i \in 1..Len(calc.sent) :
              calc.sent[i].op = "approve" => calc.sent[i].spender = calc.sent[i + 1].to

(***************************************************************************)
(* SpecOpening: channels are opened on an empty channel table along the    *)
(* three paths that reach EthereumClient.openChannel: the payment-channel  *)
(* handler run by execute (caller p1), and SnetSdk.openChannel or a direct *)
(* call of the client method (caller p2, once, for one cog).  calc keeps   *)
(* what caller p2 asked for and the height its getCurrentBlock returned.   *)
(***************************************************************************)
\* an expiration handed on as it was requested, without the current height
SdkOpenChannel_absolute(recipient, groupId, amount, expirationBlocks, currentBlock) ==
    [op |-> "openChannel", recipient |-> recipient, groupId |-> groupId,
     amount |-> amount, expiration |-> expirationBlocks]
\* SnetSdk.openChannel: the client call it makes; currentBlock is what
\* getCurrentBlock returned
SdkOpenChannel(recipient, groupId, amount, expirationBlocks, currentBlock) ==
    [op |-> "openChannel", recipient |-> recipient, groupId |-> groupId,
     amount |-> amount, expiration |-> currentBlock + expirationBlocks]

InitOpening ==
    /\ IdleSig
    /\ IdleSdk
    /\ IdleUtil
    /\ height = 0
    /\ abiEvents = TRUE
    /\ tokenBal = 0
    /\ allowance = 0
    /\ escrowBal = AmountInCogs(MaxAmount) + 1
    /\ channels = <<>>
    /\ reclaimed = {}
    /\ wallet = TRUE
    /\ pc = [p \in Procs |-> "idle"]
    /\ call = [p \in Procs |-> NoCall]
    /\ trace = [p \in Procs |-> <<>>]
    /\ ret = [p \in Procs |-> NoResult]
    /\ err = [p \in Procs |-> NoError]
    /\ nodeOp = "openChannel"
    /\ items \in [1..1 -> ItemParams(nodeOp)]
    /\ continueOnFail = TRUE
    /\ itemIndex = 1
    /\ returnData = <<>>
    /\ execPc = "loop"
    /\ execErr = NoError

\* SnetSdk.openChannel reads the height and enters the client method
SdkOpen(amount, expirationBlocks, netOk) ==
    /\ pc["p2"] = "idle"
    /\ BeginCall("p2", SdkOpenChannel(Recipient, GroupId, amount, expirationBlocks, height),
                 netOk)
    /\ calc' = [fn |-> "SnetSdk.openChannel", expirationBlocks |-> expirationBlocks,
                currentBlock |-> height]
    /\ UNCHANGED <<execVars, reads>>

\* a caller enters EthereumClient.openChannel with an expiration of its own
DirectOpen(amount, expiration, netOk) ==
    /\ pc["p2"] = "idle"
    /\ BeginCall("p2", [op |-> "openChannel", recipient |-> Recipient, groupId |-> GroupId,
                        amount |-> amount, expiration |-> expiration], netOk)
    /\ calc' = [fn |-> "EthereumClient.openChannel", expiration |-> expiration]
    /\ UNCHANGED <<execVars, reads>>

NextOpening ==
    \/ \E netOk \in BOOLEAN : HandlerStart(netOk)
    \/ \E e \in Expirations, netOk \in BOOLEAN : SdkOpen(1, e, netOk)
    \/ \E e \in Expirations, netOk \in BOOLEAN : DirectOpen(1, e, netOk)
    \/ \E p \in Procs, netOk \in BOOLEAN : Broadcast(p, netOk)
    \/ \E p \in Procs : Confirm(p)
    \/ HandlerSettles
    \/ ExecReturns
    \/ Tick
SpecOpening == InitOpening /\ [][NextOpening]_vars

\* the expiration caller p was asked to reach: the handler and the SDK add
\* the requested number of blocks to the height they read, a direct caller
\* names the expiration itself
RequestedExpiration(p, readHeight) ==
    IF p = "p1" THEN readHeight + items[itemIndex].expiration
    ELSE IF calc'.fn = "SnetSdk.openChannel" THEN readHeight + calc'.expirationBlocks
    ELSE calc'.expiration

====
